---- MODULE Spec2Model ----
(***************************************************************************)
(* Model of mongoose-zod-schema-builder: the schema cache of index.js, the *)
(* persistence compiler createMongooseSchema, the validation compiler      *)
(* createZodSchema and the error normalizer normalizeZodErrors.            *)
(*                                                                         *)
(* JavaScript values are records [t, n, s, a, o]: t is the typeof-like tag,*)
(* n a number (or boolean as 0/1), s a string as a sequence of segments    *)
(* (one character per segment wherever the code inspects characters), a    *)
(* the elements of an array, o the ordered entries [k, v] of an object.    *)
(* The validation engine is modelled with the behaviour of zod 4, the      *)
(* version whose `_def.type` tags ('string', 'number', 'array', ...) the   *)
(* code tests; in that version `_def.typeName` is undefined.               *)
(***************************************************************************)
EXTENDS Integers, Sequences, FiniteSets, TLC

VARIABLES schemaCache, nextRef, calls,
          phase, fieldName, fieldProps, fieldOptions, zodOut, mongoOut,
          normIn, normOut,
          msgArgs, msgOut,
          callers

vars == <<schemaCache, nextRef, calls, phase, fieldName, fieldProps, fieldOptions,
          zodOut, mongoOut, normIn, normOut, msgArgs, msgOut, callers>>

----------------------------------------------------------------------------
(* Characters and strings *)

Lower == <<"a","b","c","d","e","f","g","h","i","j","k","l","m",
           "n","o","p","q","r","s","t","u","v","w","x","y","z">>
Upper == <<"A","B","C","D","E","F","G","H","I","J","K","L","M",
           "N","O","P","Q","R","S","T","U","V","W","X","Y","Z">>
Digits == {"0","1","2","3","4","5","6","7","8","9"}

IsLower(c) == \E i \in 1..26 : Lower[i] = c
IsUpper(c) == \E i \in 1..26 : Upper[i] = c
IsDigit(c) == c \in Digits

\* String.prototype.toLowerCase, one character
ToLowerChar(c) == IF IsUpper(c) THEN Lower[CHOOSE i \in 1..26 : Upper[i] = c] ELSE c
ToUpperChar(c) == IF IsLower(c) THEN Upper[CHOOSE i \in 1..26 : Lower[i] = c] ELSE c

\* String.prototype.toLowerCase
ToLowerCase(s) == [i \in 1..Len(s) |-> ToLowerChar(s[i])]

\* String.prototype.includes
Includes(s, sub) ==
    \E i \in 0..(Len(s) - Len(sub)) : \A j \in 1..Len(sub) : s[i + j] = sub[j]

\* Every spelling of a lower-case word with each letter in either case
CaseVariants(w) ==
    { [i \in 1..Len(w) |-> IF up[i] THEN ToUpperChar(w[i]) ELSE w[i]] :
        up \in [1..Len(w) -> BOOLEAN] }

s_string   == <<"s","t","r","i","n","g">>
s_number   == <<"n","u","m","b","e","r">>
s_boolean  == <<"b","o","o","l","e","a","n">>
s_date     == <<"d","a","t","e">>
s_array    == <<"a","r","r","a","y">>
s_object   == <<"o","b","j","e","c","t">>
s_objectid == <<"o","b","j","e","c","t","i","d">>
s_object_id == <<"o","b","j","e","c","t","_","i","d">>
s_mixed    == <<"m","i","x","e","d">>
s_map      == <<"m","a","p">>
s_password == <<"p","a","s","s","w","o","r","d">>

----------------------------------------------------------------------------
(* JavaScript values *)

JV(t, n, s, a, o) == [t |-> t, n |-> n, s |-> s, a |-> a, o |-> o]

Undefined == JV("undefined", 0, <<>>, <<>>, <<>>)
Null      == JV("null", 0, <<>>, <<>>, <<>>)
Bool(b)   == JV("boolean", IF b THEN 1 ELSE 0, <<>>, <<>>, <<>>)
Num(n)    == JV("number", n, <<>>, <<>>, <<>>)
Str(s)    == JV("string", 0, s, <<>>, <<>>)
Fn(name)  == JV("function", 0, <<name>>, <<>>, <<>>)
RegExp(src) == JV("regexp", 0, <<src>>, <<>>, <<>>)
Arr(a)    == JV("array", 0, <<>>, a, <<>>)
Obj(o)    == JV("object", 0, <<>>, <<>>, o)
P(k, v)   == [k |-> k, v |-> v]

\* truthiness of a value (ToBoolean)
Truthy(v) ==
    CASE v.t \in {"undefined", "null"} -> FALSE
      [] v.t = "boolean" -> v.n = 1
      [] v.t = "number" -> v.n # 0
      [] v.t = "string" -> v.s # <<>>
      [] OTHER -> TRUE

\* a || b
OrElse(a, b) == IF Truthy(a) THEN a ELSE b

HasKey(obj, k) == \E i \in 1..Len(obj.o) : obj.o[i].k = k

\* obj[k] / obj.k ; an array answers `undefined` to a named key
Get(obj, k) ==
    IF HasKey(obj, k)
    THEN obj.o[CHOOSE i \in 1..Len(obj.o) : obj.o[i].k = k].v
    ELSE Undefined

\* obj[k] = v : replaces the value of an existing key in place, else appends
SetProp(obj, k, v) ==
    IF HasKey(obj, k)
    THEN Obj([i \in 1..Len(obj.o) |-> IF obj.o[i].k = k THEN P(k, v) ELSE obj.o[i]])
    ELSE Obj(Append(obj.o, P(k, v)))

\* the primitive constants a type token may be
cString   == Fn("String")
cNumber   == Fn("Number")
cBoolean  == Fn("Boolean")
cDate     == Fn("Date")
cArray    == Fn("Array")
cObject   == Fn("Object")
cMap      == Fn("Map")
cObjectId == Fn("mongoose.Schema.Types.ObjectId")
cMixed    == Fn("mongoose.Schema.Types.Mixed")

PrimitiveConstants ==
    {cString, cNumber, cBoolean, cDate, cArray, cObject, cMap, cObjectId, cMixed}

----------------------------------------------------------------------------
(* Persistence compiler: createMongooseSchema, per field *)

\* Object.entries(x): the own entries of an object; an array has index keys
IndexKey(i) == <<"0", "1", "2", "3", "4">>[i]
Entries(x) ==
    IF x.t = "array" THEN [i \in 1..Len(x.a) |-> P(IndexKey(i), x.a[i])] ELSE x.o

\* typeof t === 'string' ? t.toLowerCase() : ''
TypeStr(tok) == IF tok.t = "string" THEN ToLowerCase(tok.s) ELSE <<>>

\* a type switch whose last default falls back to Mixed, as the items switch does
MongooseTypeMixedDefault(tok) ==
    IF tok \in {cString, cNumber, cBoolean, cDate, cArray} THEN tok
    ELSE LET typeStr == TypeStr(tok) IN
         CASE typeStr = s_string -> cString
           [] typeStr = s_number -> cNumber
           [] typeStr = s_boolean -> cBoolean
           [] typeStr = s_date -> cDate
           [] typeStr = s_array -> cArray
           [] typeStr \in {s_objectid, s_object_id} -> cObjectId
           [] OTHER -> cMixed

\* the outer and inner switch on fieldProps.type
MongooseType(tok) ==
    IF tok \in {cString, cNumber, cBoolean, cDate, cArray} THEN tok
    ELSE LET typeStr == TypeStr(tok) IN
         CASE typeStr = s_string -> cString
           [] typeStr = s_number -> cNumber
           [] typeStr = s_boolean -> cBoolean
           [] typeStr = s_date -> cDate
           [] typeStr = s_array -> cArray
           [] typeStr \in {s_objectid, s_object_id} -> cObjectId
           [] typeStr = s_mixed -> cMixed
           [] typeStr = s_object -> cMixed
           [] OTHER -> tok

\* case 'items': the element type of an array field
MongooseItems(fieldConfig, propValue) ==
    IF Get(fieldConfig, "type") # cArray \/ ~Truthy(propValue)
    THEN fieldConfig
    ELSE LET it == Get(propValue, "type")
             itemTypeStr == TypeStr(it)
             setT(x) == SetProp(fieldConfig, "type", Arr(<<x>>))
         IN  IF it \in {cString, cNumber, cDate, cBoolean, cArray} THEN setT(it)
             ELSE CASE itemTypeStr = s_string -> setT(cString)
                    [] itemTypeStr = s_number -> setT(cNumber)
                    [] itemTypeStr = s_date -> setT(cDate)
                    [] itemTypeStr = s_boolean -> setT(cBoolean)
                    [] itemTypeStr = s_array -> setT(cArray)
                    [] itemTypeStr \in {s_objectid, s_object_id} ->
                         IF Truthy(Get(propValue, "ref"))
                         THEN SetProp(setT(cObjectId), "ref", Get(propValue, "ref"))
                         ELSE setT(cObjectId)
                    [] OTHER -> setT(cMixed)

EmailValidate ==
    Obj(<<P("validator", Fn("emailValidator")),
          P("message", Str(<<"Invalid email format">>))>>)
RegexValidate(propValue) ==
    Obj(<<P("validator", JV("function", 0, <<"regexValidator">>, <<propValue>>, <<>>)),
          P("message", Str(<<"Invalid format">>))>>)

\* a length bound stored under the spelling the spec used
MongooseLengthAsSpelled(fieldConfig, name, propName, propValue) ==
    SetProp(fieldConfig, propName, propValue)

\* case 'minlength'/'minLength' and case 'maxlength'/'maxLength': both spellings
\* are stored under the lower-case name
MongooseLength(fieldConfig, name, propName, propValue) ==
    SetProp(fieldConfig, name, propValue)

\* an email check that leaves a format check already attached in place
MongooseEmailKeepsCheck(fieldConfig, propValue) ==
    IF propValue = Bool(TRUE) /\ ~HasKey(fieldConfig, "validate")
    THEN SetProp(fieldConfig, "validate", EmailValidate)
    ELSE fieldConfig

\* case 'email'
MongooseEmail(fieldConfig, propValue) ==
    IF propValue = Bool(TRUE) THEN SetProp(fieldConfig, "validate", EmailValidate)
    ELSE fieldConfig

\* an enum case that copies nothing
MongooseEnumDropped(fieldConfig, propValue) == fieldConfig

\* case 'enum'
MongooseEnum(fieldConfig, propValue) ==
    IF propValue.t = "array" THEN SetProp(fieldConfig, "enum", propValue)
    ELSE fieldConfig

\* case 'regex' / 'match'
MongooseRegex(fieldConfig, propValue) ==
    IF propValue.t \in {"regexp", "string"}
    THEN SetProp(fieldConfig, "validate", RegexValidate(propValue))
    ELSE fieldConfig

\* one turn of the switch (propName) of the modifier loop
MongooseProp(fieldConfig, propName, propValue) ==
    CASE propName = "type" -> fieldConfig
      [] propName \in {"required", "unique", "min", "max", "default", "ref", "select",
                       "sparse", "index", "text", "immutable", "transform", "get", "set"} ->
           SetProp(fieldConfig, propName, propValue)
      [] propName \in {"minlength", "minLength"} ->
           MongooseLength(fieldConfig, "minlength", propName, propValue)
      [] propName \in {"maxlength", "maxLength"} ->
           MongooseLength(fieldConfig, "maxlength", propName, propValue)
      [] propName = "items" -> MongooseItems(fieldConfig, propValue)
      [] propName = "email" -> MongooseEmail(fieldConfig, propValue)
      [] propName = "enum" -> MongooseEnum(fieldConfig, propValue)
      [] propName \in {"regex", "match"} -> MongooseRegex(fieldConfig, propValue)
      [] OTHER -> fieldConfig

RECURSIVE MongooseProps(_, _, _)
MongooseProps(fieldConfig, entries, i) ==
    IF i > Len(entries) THEN fieldConfig
    ELSE MongooseProps(MongooseProp(fieldConfig, entries[i].k, entries[i].v), entries, i + 1)

\* the body of the loop over the fields: the fieldConfig of one field
MongooseField(props) ==
    MongooseProps(Obj(<<P("type", MongooseType(Get(props, "type")))>>), Entries(props), 1)

\* a loop that stops after the first field
MongooseFieldsFirst(defn, i) ==
    IF Len(defn.o) = 0 THEN Obj(<<>>)
    ELSE Obj(<<P(defn.o[1].k, MongooseField(defn.o[1].v))>>)

RECURSIVE MongooseFields(_, _)
MongooseFields(defn, i) ==
    IF i > Len(defn.o) THEN Obj(<<>>)
    ELSE LET rest == MongooseFields(defn, i + 1) IN
         \* assignments run first to last: a later equal key cannot occur in an object
         Obj(<<P(defn.o[i].k, MongooseField(defn.o[i].v))>> \o rest.o)

----------------------------------------------------------------------------
(* Validation rules (zod schemas) *)

\* a check of a rule: kind, numeric bound, pattern, allowed set, message
Check(kind, n, re, set, msg) == [kind |-> kind, n |-> n, re |-> re, set |-> set, msg |-> msg]

\* a rule: base type with its checks, element rule (arrays), shape and unknown-key
\* mode (objects), and the wrappers put around it, innermost first
ZRule(type, checks, item, shape, mode, wraps) ==
    [type |-> type, checks |-> checks, item |-> item, shape |-> shape,
     mode |-> mode, wraps |-> wraps]

Wrap(kind, val) == [kind |-> kind, val |-> val]

ZBase(type)  == ZRule(type, <<>>, <<>>, <<>>, "", <<>>)
ZString      == ZBase("string")
ZNumber      == ZBase("number")
ZBoolean     == ZBase("boolean")
ZDate        == ZBase("date")
ZAny         == ZBase("any")
ZArray(item) == ZRule("array", <<>>, <<item>>, <<>>, "", <<>>)
ZObject(shape, mode) == ZRule("object", <<>>, <<>>, shape, mode, <<>>)
NoRule       == ZBase("none")

\* zodValidator._def.type
DefType(z) == IF z.wraps = <<>> THEN z.type ELSE z.wraps[Len(z.wraps)].kind

\* zodValidator._def.typeName: zod 4 definitions carry no typeName
DefTypeName(z) == "undefined"

AddCheck(z, c) == [z EXCEPT !.checks = Append(@, c)]
Optional(z)    == [z EXCEPT !.wraps = Append(@, Wrap("optional", Undefined))]
Default(z, v)  == [z EXCEPT !.wraps = Append(@, Wrap("default", v))]

ReHex24 == RegExp("/^[0-9a-fA-F]{24}$/")
ReDefaultPassword ==
    RegExp("/^(?=.*[a-z])(?=.*[A-Z])(?=.*\\d)(?=.*[@$!%*?&#])[A-Za-z\\d@$!%*?&#]{8,}$/")

\* z.string().length(24, 'Invalid ObjectId').regex(/^[0-9a-fA-F]{24}$/, ...)
ZObjectId ==
    AddCheck(AddCheck(ZString,
        Check("length", 24, Undefined, <<>>, Str(<<"Invalid ObjectId">>))),
        Check("regex", 0, ReHex24, <<>>, Str(<<"Invalid ObjectId format">>)))

\* results of an operation that may throw
Ok(v)        == [ok |-> TRUE, val |-> v, err |-> Undefined]
Throw(e)     == [ok |-> FALSE, val |-> NoRule, err |-> e]
Error(name, msg) == Obj(<<P("name", Str(<<name>>)), P("message", Str(msg))>>)

\* String(v) as it appears in a template literal
NumStr(n) ==
    LET d(k) == <<"0","1","2","3","4","5","6","7","8","9">>[k + 1] IN
    IF n \in 0..9 THEN <<d(n)>>
    ELSE IF n \in 10..99 THEN <<d(n \div 10), d(n % 10)>> ELSE <<"NaN">>
ToStringSegs(v) ==
    CASE v.t = "string" -> v.s
      [] v.t = "number" -> NumStr(v.n)
      [] v.t = "boolean" -> IF v.n = 1 THEN <<"true">> ELSE <<"false">>
      [] v.t = "undefined" -> <<"undefined">>
      [] v.t = "null" -> <<"null">>
      [] v.t = "function" -> <<"function ">> \o v.s
      [] v.t = "regexp" -> v.s
      [] OTHER -> <<"[object Object]">>

----------------------------------------------------------------------------
(* Validation compiler: createZodSchema *)

\* members every object literal inherits: defaultMessages[rule] finds them too
ObjectPrototypeKeys ==
    {"constructor", "toString", "valueOf", "hasOwnProperty", "isPrototypeOf",
     "propertyIsEnumerable", "toLocaleString"}

\* the message of a rule: the custom one under "<field>.<rule>", else the default
getCustomMessage(fName, rule, value, customMessages) ==
    LET key == fName \o <<".", rule>> IN
    IF Truthy(Get(customMessages, key)) THEN Get(customMessages, key)
    ELSE CASE rule = "required" -> Str(fName \o <<" is required">>)
           [] rule = "min" -> Str(fName \o <<" must be at least ">> \o ToStringSegs(value))
           [] rule = "max" -> Str(fName \o <<" must be at most ">> \o ToStringSegs(value))
           [] rule = "minlength" ->
                Str(fName \o <<" must be at least ">> \o ToStringSegs(value) \o <<" characters">>)
           [] rule = "maxlength" ->
                Str(fName \o <<" must be at most ">> \o ToStringSegs(value) \o <<" characters">>)
           [] rule = "email" -> Str(fName \o <<" must be a valid email address">>)
           [] rule = "regex" -> Str(fName \o <<" format is invalid">>)
           [] rule = "enum" -> Str(fName \o <<" must be one of the allowed values">>)
           [] rule \in ObjectPrototypeKeys -> Fn(rule)
           [] OTHER -> Str(fName \o <<" validation failed">>)

\* Array.prototype.join: null and undefined elements give the empty string
RECURSIVE JoinSegs(_, _, _)
JoinSegs(a, sep, i) ==
    IF i > Len(a) THEN <<>>
    ELSE (IF i > 1 THEN <<sep>> ELSE <<>>)
         \o (IF a[i].t \in {"undefined", "null"} THEN <<>> ELSE ToStringSegs(a[i]))
         \o JoinSegs(a, sep, i + 1)

\* arr.map(val => val.toLowerCase()): the lower-cased strings
LowerCaseEnum(arr) == [i \in 1..Len(arr.a) |-> ToLowerCase(arr.a[i].s)]

\* an enum check that does not fold the input to lower case
EnumChecksNoFold(z, fName, enumV) ==
    AddCheck(z, Check("refine_enum", 0, Undefined, LowerCaseEnum(enumV),
                      Str(fName \o <<" must be one of: ">> \o JoinSegs(enumV.a, ", ", 1))))

\* .toLowerCase().refine(val => lowerCaseEnum.includes(val), {message})
EnumChecks(z, fName, enumV) ==
    AddCheck(AddCheck(z, Check("toLowerCase", 0, Undefined, <<>>, Undefined)),
             Check("refine_enum", 0, Undefined, LowerCaseEnum(enumV),
                   Str(fName \o <<" must be one of: ">> \o JoinSegs(enumV.a, ", ", 1))))

\* val.toLowerCase() exists on strings only; .map exists on arrays only
EnumMappable(enumV) ==
    enumV.t = "array" /\ \A i \in 1..Len(enumV.a) : enumV.a[i].t = "string"

TypeErr == Error("TypeError", <<"is not a function">>)

\* the array-shorthand branch: fieldProps is itself an array
ZodShorthand(fName, props) ==
    LET first == IF Len(props.a) >= 1 THEN props.a[1] ELSE Undefined
        \* fieldProps[0]?.type : reading a property of null/undefined gives undefined
        itemType == OrElse(Get(first, "type"), Str(<<"S","t","r","i","n","g">>))
        enumV == Get(first, "enum")
        itemValidator ==
            CASE itemType \in {cString, Str(<<"S","t","r","i","n","g">>)} -> ZString
              [] itemType \in {cNumber, Str(<<"N","u","m","b","e","r">>)} -> ZNumber
              [] itemType \in {cBoolean, Str(<<"B","o","o","l","e","a","n">>)} -> ZBoolean
              [] itemType \in {cDate, Str(<<"D","a","t","e">>)} -> ZDate
              [] OTHER -> ZAny
    IN  IF Truthy(enumV)
        THEN IF EnumMappable(enumV) /\ itemValidator.type = "string"
             THEN Ok(ZArray(EnumChecks(itemValidator, fName, enumV)))
             ELSE Throw(TypeErr)
        ELSE Ok(ZArray(itemValidator))

\* the element rule of an array field with `items`
ZodItem(items) ==
    LET it == Get(items, "type")
        itemTypeStr == TypeStr(it)
    IN  CASE it = cString -> ZString
          [] it = cNumber -> ZNumber
          [] it = cBoolean -> ZBoolean
          [] it = cDate -> ZDate
          [] OTHER ->
             CASE itemTypeStr = s_string -> ZString
               [] itemTypeStr = s_number -> ZNumber
               [] itemTypeStr = s_boolean -> ZBoolean
               [] itemTypeStr = s_date -> ZDate
               [] itemTypeStr \in {s_objectid, s_object_id} -> ZObjectId
               [] OTHER -> ZAny

ZodArrayOf(props) ==
    IF Truthy(Get(props, "items")) THEN ZArray(ZodItem(Get(props, "items")))
    ELSE ZArray(ZAny)

ZOpenObject == ZObject(<<>>, "passthrough")
ZMap        == ZObject(<<>>, "catchall_string")

InvalidType(tok) == Error("Error", <<"Invalid type: ">> \o ToStringSegs(tok))

s_email == <<"e","m","a","i","l">>
s_phone == <<"p","h","o","n","e">>
s_url   == <<"u","r","l">>
s_http  == <<"h","t","t","p">>

\* regex.toString() of `propValue instanceof RegExp ? propValue : new RegExp(propValue)`
ToRegExp(propValue) ==
    IF propValue.t = "regexp" THEN propValue
    ELSE JV("regexp", 0, <<"/">> \o ToStringSegs(propValue) \o <<"/">>, <<>>, <<>>)

\* case 'regex' / 'match': the message of the pattern check
RegexMessage(fName, propValue, customMessages) ==
    LET message == getCustomMessage(fName, "regex", propValue, customMessages)
        regexStr == ToRegExp(propValue).s
        lname == ToLowerCase(fName)
    IN  IF Truthy(message) THEN message
        ELSE IF Includes(lname, s_email) \/ Includes(regexStr, <<"@">>)
             THEN Str(fName \o <<" must be a valid email address">>)
        ELSE IF Includes(lname, s_password)
                \/ Includes(regexStr, <<"(","?","=",".","*","\\","d",")">>)
             THEN Str(fName \o <<" must contain at least one lowercase letter, one uppercase letter, one number, and one special character.">>)
        ELSE IF Includes(lname, s_phone) \/ Includes(regexStr, <<"\\","d">>)
             THEN Str(fName \o <<" must be a valid phone number">>)
        ELSE IF Includes(lname, s_url) \/ Includes(regexStr, s_http)
             THEN Str(fName \o <<" must be a valid URL">>)
        ELSE Str(fName \o <<" format is invalid">>)

\* one turn of the switch (propName) of step 2, on the rule built so far
ZodProp(z, fName, propName, propValue, customMessages) ==
    CASE propName = "required" ->
           Ok(IF propValue = Bool(FALSE) THEN Optional(z) ELSE z)
      [] propName \in {"minlength", "minLength"} ->
           Ok(IF DefType(z) = "string"
              THEN AddCheck(z, Check("min", propValue.n, Undefined, <<>>,
                     OrElse(getCustomMessage(fName, "minlength", propValue, customMessages),
                            Str(fName \o <<" must be at least ">> \o ToStringSegs(propValue)
                                      \o <<" characters long">>))))
              ELSE z)
      [] propName \in {"maxlength", "maxLength"} ->
           Ok(IF DefType(z) = "string"
              THEN AddCheck(z, Check("max", propValue.n, Undefined, <<>>,
                     OrElse(getCustomMessage(fName, "maxlength", propValue, customMessages),
                            Str(fName \o <<" must be at most ">> \o ToStringSegs(propValue)
                                      \o <<" characters long">>))))
              ELSE z)
      [] propName = "min" ->
           Ok(IF DefType(z) = "number"
              THEN AddCheck(z, Check("min", propValue.n, Undefined, <<>>,
                     Str(<<"Min value for ">> \o fName \o <<" is ">> \o ToStringSegs(propValue))))
              ELSE IF DefType(z) = "array"
              THEN AddCheck(z, Check("min", propValue.n, Undefined, <<>>,
                     Str(<<"Array ">> \o fName \o <<" must have at least ">>
                         \o ToStringSegs(propValue) \o <<" items">>)))
              ELSE z)
      [] propName = "max" ->
           Ok(IF DefType(z) = "number"
              THEN AddCheck(z, Check("max", propValue.n, Undefined, <<>>,
                     Str(<<"Max value for ">> \o fName \o <<" is ">> \o ToStringSegs(propValue))))
              ELSE IF DefType(z) = "array"
              THEN AddCheck(z, Check("max", propValue.n, Undefined, <<>>,
                     Str(<<"Array ">> \o fName \o <<" must have at most ">>
                         \o ToStringSegs(propValue) \o <<" items">>)))
              ELSE z)
      [] propName = "email" ->
           Ok(IF propValue = Bool(TRUE) /\ DefType(z) = "string"
              THEN AddCheck(z, Check("email", 0, Undefined, <<>>,
                     Str(<<"Invalid email format for ">> \o fName)))
              ELSE z)
      [] propName = "enum" ->
           IF propValue.t = "array"
           THEN IF EnumMappable(propValue) THEN Ok(EnumChecks(ZString, fName, propValue))
                ELSE Throw(TypeErr)
           ELSE Ok(z)
      [] propName \in {"regex", "match"} ->
           Ok(IF DefType(z) = "string"
              THEN AddCheck(z, Check("regex", 0, ToRegExp(propValue), <<>>,
                                     RegexMessage(fName, propValue, customMessages)))
              ELSE z)
      [] propName = "default" ->
           Ok(IF propValue # Undefined THEN Default(z, propValue) ELSE z)
      [] propName = "ref" ->
           Ok(IF DefTypeName(z) = "ZodString" THEN ZObjectId ELSE z)
      [] OTHER -> Ok(z)

\* step 2: the loop over Object.entries(fieldProps), skipping type and items
RECURSIVE ZodProps(_, _, _, _, _)
ZodProps(r, fName, entries, i, customMessages) ==
    IF ~r.ok \/ i > Len(entries) THEN r
    ELSE IF entries[i].k \in {"type", "items"}
         THEN ZodProps(r, fName, entries, i + 1, customMessages)
         ELSE ZodProps(ZodProp(r.val, fName, entries[i].k, entries[i].v, customMessages),
                       fName, entries, i + 1, customMessages)

\* step 3: the default password pattern
PasswordStep(z, fName, props) ==
    IF Includes(ToLowerCase(fName), s_password)
       /\ Get(props, "regex") = Undefined
       /\ DefType(z) = "string"
    THEN AddCheck(z, Check("regex", 0, ReDefaultPassword, <<>>,
           Str(fName \o <<" must contain at least one lowercase letter, one uppercase letter, one number, and one special character (@$!%*?&#).">>)))
    ELSE z

\* step 4 left out: optionality would rest on the default wrapper alone
DefaultStepSkipped(z, props) == z

\* step 4: a default makes the field optional unless it is explicitly required
DefaultStep(z, props) ==
    IF Get(props, "default") # Undefined /\ Get(props, "required") # Bool(TRUE)
    THEN Optional(z)
    ELSE z

CustomMessagesOf(options) ==
    IF Get(options, "customMessages") = Undefined THEN Obj(<<>>)
    ELSE Get(options, "customMessages")

RECURSIVE createZodSchema(_, _)
RECURSIVE ZodBaseType(_, _)
RECURSIVE ZodField(_, _, _)
RECURSIVE ZodFields(_, _, _)

\* step 1: the base rule of the field's type token
ZodBaseType(props, options) ==
    LET tok == Get(props, "type")
        typeStr == TypeStr(tok)
    IN  CASE tok = cString -> Ok(ZString)
          [] tok = cNumber -> Ok(ZNumber)
          [] tok = cBoolean -> Ok(ZBoolean)
          [] tok = cDate -> Ok(ZDate)
          [] tok = cArray -> Ok(ZodArrayOf(props))
          [] tok = cObject -> Ok(ZOpenObject)
          [] tok = cMap -> Ok(ZMap)
          [] OTHER ->
             CASE typeStr = s_string -> Ok(ZString)
               [] typeStr = s_number -> Ok(ZNumber)
               [] typeStr = s_boolean -> Ok(ZBoolean)
               [] typeStr = s_date -> Ok(ZDate)
               [] typeStr = s_array -> Ok(ZodArrayOf(props))
               [] typeStr \in {s_objectid, s_object_id} -> Ok(ZObjectId)
               [] typeStr = s_object ->
                    IF Truthy(Get(props, "schema"))
                    THEN createZodSchema(Get(props, "schema"), options)
                    ELSE Ok(ZOpenObject)
               [] typeStr = s_mixed -> Ok(ZAny)
               [] typeStr = s_map -> Ok(ZMap)
               [] OTHER -> Throw(InvalidType(tok))

\* the body of the loop over the fields: the rule of one field
ZodField(fName, props, options) ==
    IF props.t = "array" THEN ZodShorthand(fName, props)
    ELSE LET r == ZodProps(ZodBaseType(props, options), fName, Entries(props), 1,
                           CustomMessagesOf(options))
         IN  IF r.ok THEN Ok(DefaultStep(PasswordStep(r.val, fName, props), props)) ELSE r

\* the fields in order; the first throw aborts the compilation
ZodFields(defn, i, options) ==
    IF i > Len(defn.o) THEN Ok(ZObject(<<>>, "strip"))
    ELSE LET f == ZodField(defn.o[i].k, defn.o[i].v, options) IN
         IF ~f.ok THEN f
         ELSE LET rest == ZodFields(defn, i + 1, options) IN
              IF ~rest.ok THEN rest
              ELSE Ok(ZObject(<<P(defn.o[i].k, f.val)>> \o rest.val.shape, "strip"))

createZodSchema(schemaDefinition, options) == ZodFields(schemaDefinition, 1, options)

----------------------------------------------------------------------------
(* What a compiled rule accepts: schema.safeParse(input).success *)

\* patterns of the examples: /^[a-zA-Z0-9]{8,}$/ and /^[a-z]+$/
ReAlnum8 ==
    JV("regexp", 0, <<"/","^","[","a","-","z","A","-","Z","0","-","9","]",
                      "{","8",",","}","$","/">>, <<>>, <<>>)
ReLowerWord ==
    JV("regexp", 0, <<"/","^","[","a","-","z","]","+","$","/">>, <<>>, <<>>)
\* patterns with a digit class, an at sign and a scheme literal:
\* /^\d+$/, /^[a-z]+@[a-z]+$/ and /^http/
ReDigits ==
    JV("regexp", 0, <<"/","^","\\","d","+","$","/">>, <<>>, <<>>)
ReAtSign ==
    JV("regexp", 0, <<"/","^","[","a","-","z","]","+","@","[","a","-","z","]","+","$","/">>,
       <<>>, <<>>)
ReHttp ==
    JV("regexp", 0, <<"/","^","h","t","t","p","/">>, <<>>, <<>>)
\* a pattern with the digit lookahead: /(?=.*\d)/
ReLookahead ==
    JV("regexp", 0, <<"/","(","?","=",".","*","\\","d",")","/">>, <<>>, <<>>)

HexChars == Digits \cup {"a","b","c","d","e","f","A","B","C","D","E","F"}
PasswordSymbols == {"@","$","!","%","*","?","&","#"}

\* regex.test(s) for the patterns the model uses
RegexTest(re, s) ==
    CASE re = ReHex24 -> Len(s) = 24 /\ \A i \in 1..Len(s) : s[i] \in HexChars
      [] re = ReDefaultPassword ->
           /\ Len(s) >= 8
           /\ \A i \in 1..Len(s) :
                IsLower(s[i]) \/ IsUpper(s[i]) \/ IsDigit(s[i]) \/ s[i] \in PasswordSymbols
           /\ \E i \in 1..Len(s) : IsLower(s[i])
           /\ \E i \in 1..Len(s) : IsUpper(s[i])
           /\ \E i \in 1..Len(s) : IsDigit(s[i])
           /\ \E i \in 1..Len(s) : s[i] \in PasswordSymbols
      [] re = ReAlnum8 ->
           Len(s) >= 8 /\ \A i \in 1..Len(s) : IsLower(s[i]) \/ IsUpper(s[i]) \/ IsDigit(s[i])
      [] re = ReLowerWord -> Len(s) >= 1 /\ \A i \in 1..Len(s) : IsLower(s[i])
      [] re = ReDigits -> Len(s) >= 1 /\ \A i \in 1..Len(s) : IsDigit(s[i])
      [] re = ReAtSign ->
           \E p \in 2..(Len(s) - 1) :
               s[p] = "@" /\ \A i \in 1..Len(s) : i # p => IsLower(s[i])
      [] re = ReHttp -> Len(s) >= 4 /\ SubSeq(s, 1, 4) = s_http
      [] re = ReLookahead -> \E i \in 1..Len(s) : IsDigit(s[i])
      [] OTHER -> FALSE

\* the engine's email format: local@label.tld with one '@', a dotted domain
\* and a final label of at least two letters
IsEmail(s) ==
    \E p \in 2..(Len(s) - 1) :
        /\ s[p] = "@"
        /\ \A i \in 1..Len(s) : i # p => s[i] # "@"
        /\ \E d \in (p + 2)..(Len(s) - 2) :
              /\ s[d] = "."
              /\ \A i \in (d + 1)..Len(s) : IsLower(s[i]) \/ IsUpper(s[i])

\* the checks of a string rule, in order; toLowerCase rewrites the value
RECURSIVE StringChecks(_, _, _)
StringChecks(checks, i, s) ==
    IF i > Len(checks) THEN TRUE
    ELSE LET c == checks[i] IN
         CASE c.kind = "toLowerCase" -> StringChecks(checks, i + 1, ToLowerCase(s))
           [] c.kind = "min" -> Len(s) >= c.n /\ StringChecks(checks, i + 1, s)
           [] c.kind = "max" -> Len(s) <= c.n /\ StringChecks(checks, i + 1, s)
           [] c.kind = "length" -> Len(s) = c.n /\ StringChecks(checks, i + 1, s)
           [] c.kind = "email" -> IsEmail(s) /\ StringChecks(checks, i + 1, s)
           [] c.kind = "regex" -> RegexTest(c.re, s) /\ StringChecks(checks, i + 1, s)
           [] c.kind = "refine_enum" ->
                (\E k \in 1..Len(c.set) : c.set[k] = s) /\ StringChecks(checks, i + 1, s)
           [] OTHER -> StringChecks(checks, i + 1, s)

\* min / max of a number or of an array's length
BoundChecks(checks, n) ==
    \A i \in 1..Len(checks) :
        /\ checks[i].kind = "min" => n >= checks[i].n
        /\ checks[i].kind = "max" => n <= checks[i].n

RECURSIVE AcceptsBase(_, _)
AcceptsBase(z, v) ==
    CASE z.type = "string" -> v.t = "string" /\ StringChecks(z.checks, 1, v.s)
      [] z.type = "number" -> v.t = "number" /\ BoundChecks(z.checks, v.n)
      [] z.type = "boolean" -> v.t = "boolean"
      [] z.type = "date" -> v.t = "date"
      [] z.type = "any" -> TRUE
      [] z.type = "array" ->
           /\ v.t = "array"
           /\ BoundChecks(z.checks, Len(v.a))
           /\ \A i \in 1..Len(v.a) : AcceptsBase(z.item[1], v.a[i])
      [] z.type = "object" ->
           /\ v.t = "object"
           /\ \A i \in 1..Len(z.shape) :
                LET f == z.shape[i].v
                    x == Get(v, z.shape[i].k)
                IN  IF x = Undefined /\ f.wraps # <<>> THEN TRUE
                    ELSE AcceptsBase(f, x)
           /\ z.mode = "catchall_string" =>
                \A i \in 1..Len(v.o) :
                    (\A j \in 1..Len(z.shape) : z.shape[j].k # v.o[i].k) => v.o[i].v.t = "string"
      [] OTHER -> FALSE

\* an absent input is taken by any optional or default wrapper; a present one
\* goes to the wrapped rule
Accepts(z, v) == IF v = Undefined /\ z.wraps # <<>> THEN TRUE ELSE AcceptsBase(z, v)

\* what parsing an absent input gives when it is accepted: the value of the
\* default wrapper if the rule has one (an optional around a default hands the
\* absent input on to the default), otherwise undefined
AbsentOutput(z) ==
    IF \E i \in 1..Len(z.wraps) : z.wraps[i].kind = "default"
    THEN z.wraps[CHOOSE i \in 1..Len(z.wraps) :
                    /\ z.wraps[i].kind = "default"
                    /\ \A j \in (i + 1)..Len(z.wraps) : z.wraps[j].kind # "default"].val
    ELSE Undefined

\* one issue of a failed parse: where, which kind, with which message
Issue(path, code, message) == [path |-> path, code |-> code, message |-> message]

\* the issues of the checks of a string rule, every failing check reporting
RECURSIVE StringIssues(_, _, _, _)
StringIssues(checks, i, s, path) ==
    IF i > Len(checks) THEN {}
    ELSE LET c == checks[i]
             failed(bad, code) == IF bad THEN {Issue(path, code, c.msg)} ELSE {}
         IN  CASE c.kind = "toLowerCase" -> StringIssues(checks, i + 1, ToLowerCase(s), path)
               [] c.kind = "min" ->
                    failed(Len(s) < c.n, "too_small") \cup StringIssues(checks, i + 1, s, path)
               [] c.kind = "max" ->
                    failed(Len(s) > c.n, "too_big") \cup StringIssues(checks, i + 1, s, path)
               [] c.kind = "length" ->
                    failed(Len(s) < c.n, "too_small") \cup failed(Len(s) > c.n, "too_big")
                    \cup StringIssues(checks, i + 1, s, path)
               [] c.kind = "email" ->
                    failed(~IsEmail(s), "invalid_format")
                    \cup StringIssues(checks, i + 1, s, path)
               [] c.kind = "regex" ->
                    failed(~RegexTest(c.re, s), "invalid_format")
                    \cup StringIssues(checks, i + 1, s, path)
               [] c.kind = "refine_enum" ->
                    failed(~\E k \in 1..Len(c.set) : c.set[k] = s, "custom")
                    \cup StringIssues(checks, i + 1, s, path)
               [] OTHER -> StringIssues(checks, i + 1, s, path)

\* the issues of the min / max checks of a number or of an array's length
BoundIssues(checks, n, path) ==
    { Issue(path, "too_small", checks[i].msg) :
        i \in { j \in 1..Len(checks) : checks[j].kind = "min" /\ n < checks[j].n } }
    \cup { Issue(path, "too_big", checks[i].msg) :
        i \in { j \in 1..Len(checks) : checks[j].kind = "max" /\ n > checks[j].n } }

WrongType(path) == {Issue(path, "invalid_type", Undefined)}

\* schema.safeParse(input).error.issues, as a set
RECURSIVE RuleIssues(_, _, _)
RuleIssues(z, v, path) ==
    IF v = Undefined /\ z.wraps # <<>> THEN {}
    ELSE CASE z.type = "string" ->
                IF v.t = "string" THEN StringIssues(z.checks, 1, v.s, path) ELSE WrongType(path)
           [] z.type = "number" ->
                IF v.t = "number" THEN BoundIssues(z.checks, v.n, path) ELSE WrongType(path)
           [] z.type = "boolean" -> IF v.t = "boolean" THEN {} ELSE WrongType(path)
           [] z.type = "date" -> IF v.t = "date" THEN {} ELSE WrongType(path)
           [] z.type = "any" -> {}
           [] z.type = "array" ->
                IF v.t # "array" THEN WrongType(path)
                ELSE BoundIssues(z.checks, Len(v.a), path)
                     \cup UNION { RuleIssues(z.item[1], v.a[i], Append(path, Num(i - 1))) :
                                    i \in 1..Len(v.a) }
           [] z.type = "object" ->
                IF v.t # "object" THEN WrongType(path)
                ELSE UNION { RuleIssues(z.shape[i].v, Get(v, z.shape[i].k),
                                        Append(path, Str(z.shape[i].k))) :
                               i \in 1..Len(z.shape) }
                     \cup (IF z.mode = "catchall_string"
                           THEN UNION { IF (\A j \in 1..Len(z.shape) : z.shape[j].k # v.o[i].k)
                                           /\ v.o[i].v.t # "string"
                                        THEN WrongType(Append(path, Str(v.o[i].k))) ELSE {} :
                                        i \in 1..Len(v.o) }
                           ELSE {})
           [] OTHER -> WrongType(path)

----------------------------------------------------------------------------
(* createMongooseSchema: the schema object handed to the storage engine *)

\* { ...a, ...b } : the entries of b assigned over those of a
RECURSIVE Spread(_, _, _)
Spread(a, b, i) ==
    IF i > Len(b.o) THEN a ELSE Spread(SetProp(a, b.o[i].k, b.o[i].v), b, i + 1)

\* a destructured option with its `= {}` default
OptionOr(options, k) == IF Get(options, k) = Undefined THEN Obj(<<>>) ELSE Get(options, k)

\* Object.entries(x || {}) of a part of the middleware option
HookEntries(middleware, k) ==
    IF Truthy(Get(middleware, k)) THEN Entries(Get(middleware, k)) ELSE <<>>

createMongooseSchema(schemaDefinition, options) ==
    Obj(<<P("obj", MongooseFields(schemaDefinition, 1)),
          P("options", Spread(Obj(<<P("timestamps", Bool(TRUE))>>),
                              OptionOr(options, "schemaOptions"), 1)),
          P("pre", Obj(HookEntries(OptionOr(options, "middleware"), "pre"))),
          P("post", Obj(HookEntries(OptionOr(options, "middleware"), "post"))),
          P("virtuals", Obj(Entries(OptionOr(options, "virtuals")))),
          P("indexes", Obj(Entries(OptionOr(options, "indexes"))))>>)

----------------------------------------------------------------------------
(* index.js: the schema cache and createSchemas *)

\* JSON.stringify, as the value its text denotes: a property whose value is
\* undefined or a function is left out, such an array element becomes null,
\* a RegExp has no enumerable property and becomes {}
RECURSIVE JsonImage(_)
RECURSIVE JsonEntries(_, _)
JsonEntries(o, i) ==
    IF i > Len(o) THEN <<>>
    ELSE IF o[i].v.t \in {"undefined", "function"} THEN JsonEntries(o, i + 1)
         ELSE <<P(o[i].k, JsonImage(o[i].v))>> \o JsonEntries(o, i + 1)
JsonImage(v) ==
    CASE v.t \in {"undefined", "function"} -> Undefined
      [] v.t = "regexp" -> Obj(<<>>)
      [] v.t = "array" ->
           Arr([i \in 1..Len(v.a) |->
                  IF v.a[i].t \in {"undefined", "function"} THEN Null ELSE JsonImage(v.a[i])])
      [] v.t = "object" -> Obj(JsonEntries(v.o, 1))
      [] OTHER -> v

generateCacheKey(schemaDefinition, options) ==
    JsonImage(Obj(<<P("schemaDefinition", schemaDefinition), P("options", options)>>))

\* const { enableCache = true, ...schemaOptions } = options
EnableCache(options) ==
    IF Get(options, "enableCache") = Undefined THEN TRUE
    ELSE Truthy(Get(options, "enableCache"))
SchemaOptions(options) ==
    Obj(SelectSeq(options.o, LAMBDA e : e.k # "enableCache"))

CacheHas(cache, key) == \E i \in 1..Len(cache) : cache[i].k = key
CacheGet(cache, key) == cache[CHOOSE i \in 1..Len(cache) : cache[i].k = key].v
\* a set that never overwrites: one more entry per store
CacheSetAppend(cache, key, v) == Append(cache, P(key, v))

\* Map.prototype.set: the entry of the key is overwritten in place
CacheSet(cache, key, v) ==
    IF CacheHas(cache, key)
    THEN [i \in 1..Len(cache) |-> IF cache[i].k = key THEN P(key, v) ELSE cache[i]]
    ELSE Append(cache, P(key, v))

Pair(ref, m, z) == [ref |-> ref, mongooseSchema |-> m, zodSchema |-> z]
NoPair == Pair(0, Undefined, NoRule)

\* what a call gives back: a pair, or the error it throws
Returned(pair) == [ok |-> TRUE, pair |-> pair, err |-> Undefined]
Raised(e)      == [ok |-> FALSE, pair |-> NoPair, err |-> e]

\* a lookup under a key that still holds enableCache
CacheLookupFullOptions(cache, schemaDefinition, options) ==
    EnableCache(options) /\ CacheHas(cache, generateCacheKey(schemaDefinition, options))

\* the lookup of createSchemas: is the call answered from the cache?
CacheLookup(cache, schemaDefinition, options) ==
    EnableCache(options)
    /\ CacheHas(cache, generateCacheKey(schemaDefinition, SchemaOptions(options)))

\* a store that forgets the enableCache test
CacheStoreAlways(cache, schemaDefinition, options, result) ==
    CacheSet(cache, generateCacheKey(schemaDefinition, SchemaOptions(options)), result)

\* a store into a cache that holds the newest entry only
CacheStoreEvicting(cache, schemaDefinition, options, result) ==
    IF EnableCache(options)
    THEN <<P(generateCacheKey(schemaDefinition, SchemaOptions(options)), result)>>
    ELSE cache

\* the store of createSchemas: the cache after a compilation that succeeded
CacheStore(cache, schemaDefinition, options, result) ==
    IF EnableCache(options)
    THEN CacheSet(cache, generateCacheKey(schemaDefinition, SchemaOptions(options)), result)
    ELSE cache

\* createSchemas(schemaDefinition, options): [out, cache]; `ref` is the identity
\* a freshly built result object gets
createSchemas(cache, ref, schemaDefinition, options) ==
    IF CacheLookup(cache, schemaDefinition, options)
    THEN [out |-> Returned(CacheGet(cache,
                     generateCacheKey(schemaDefinition, SchemaOptions(options)))),
          cache |-> cache]
    ELSE LET m == createMongooseSchema(schemaDefinition, SchemaOptions(options))
             z == createZodSchema(schemaDefinition, SchemaOptions(options))
         IN  IF ~z.ok THEN [out |-> Raised(z.err), cache |-> cache]
             ELSE LET result == Pair(ref, m, z.val) IN
                  [out |-> Returned(result),
                   cache |-> CacheStore(cache, schemaDefinition, options, result)]

----------------------------------------------------------------------------
(* normalizeZodErrors *)

NormOk(v)    == [ok |-> TRUE, val |-> v, err |-> Undefined]
NormThrow(e) == [ok |-> FALSE, val |-> Undefined, err |-> e]

\* reading a property of null or undefined throws
Readable(v) == v.t \notin {"undefined", "null"}

\* err.path ? err.path.join('.') : 'unknown' ; join exists on arrays only
FieldOf(err) ==
    LET path == Get(err, "path") IN
    IF Truthy(path) THEN Str(JoinSegs(path.a, ".", 1)) ELSE Str(<<"unknown">>)
FieldThrows(err) == Truthy(Get(err, "path")) /\ Get(err, "path").t # "array"

\* the record built for one entry of the list
NormalizeEntry(err) ==
    Obj(<<P("field", FieldOf(err)),
          P("message", OrElse(Get(err, "message"), Str(<<"Validation failed">>))),
          P("code", OrElse(Get(err, "code"), Str(<<"unknown">>))),
          P("value", OrElse(Get(err, "input"), Get(err, "received"))),
          P("type", OrElse(OrElse(Get(err, "expected"), Get(err, "format")),
                           Str(<<"unknown">>)))>>)

\* const errorList = error.issues || error.errors || []
ErrorList(error) == OrElse(OrElse(Get(error, "issues"), Get(error, "errors")), Arr(<<>>))

normalizeZodErrors(error) ==
    IF ~Readable(error) THEN NormThrow(TypeErr)
    ELSE LET errorList == ErrorList(error) IN
         IF errorList.t # "array" THEN NormThrow(TypeErr)
         ELSE IF \E i \in 1..Len(errorList.a) :
                    ~Readable(errorList.a[i]) \/ FieldThrows(errorList.a[i])
              THEN NormThrow(TypeErr)
              ELSE NormOk(Arr([i \in 1..Len(errorList.a) |-> NormalizeEntry(errorList.a[i])]))

----------------------------------------------------------------------------
(* Bounds and input pools *)

MaxMods   == 2   \* modifiers of a field spec besides `type`
MaxCalls  == 3   \* createSchemas calls in a run
MaxIssues == 2   \* entries of a failure's collection
MaxCallers == 2  \* createSchemas calls in flight in a concurrent host

n_name         == <<"n","a","m","e">>
n_password     == s_password
n_userPassword == <<"u","s","e","r","P","a","s","s","w","o","r","d">>
FieldNames == {n_name, n_password, n_userPassword}

\* the canonical spellings of the nine type names
CanonicalSpelling ==
    {<<"S","t","r","i","n","g">>, <<"N","u","m","b","e","r">>, <<"B","o","o","l","e","a","n">>,
     <<"D","a","t","e">>, <<"A","r","r","a","y">>, <<"O","b","j","e","c","t">>,
     <<"O","b","j","e","c","t","I","d">>, <<"M","i","x","e","d">>, <<"M","a","p">>}

AliasWords ==
    {s_string, s_number, s_boolean, s_date, s_array, s_object, s_objectid, s_object_id,
     s_mixed, s_map}

\* every casing of every alias, as string tokens
AliasTokens == { Str(w) : w \in UNION { CaseVariants(a) : a \in AliasWords } }

\* tokens that match neither a constant nor an alias
UnmatchedTokens ==
    {Str(<<"f","o","o">>), Str(<<"B","u","f","f","e","r">>), Str(<<>>),
     Str(<<"s","t","r","i","n","g","s">>), Fn("Buffer"), Num(1), Undefined}

TypeTokens == AliasTokens \cup PrimitiveConstants \cup UnmatchedTokens

\* the types a field with modifiers is given
RichTypes ==
    { Str(w) : w \in CanonicalSpelling } \cup {cString}

EnumAB == Arr(<<Str(<<"A">>), Str(<<"B">>)>>)

ModPool ==
    {P("required", Bool(TRUE)), P("required", Bool(FALSE)),
     P("minlength", Num(2)), P("minLength", Num(8)), P("maxlength", Num(5)),
     P("min", Num(1)), P("max", Num(2)),
     P("email", Bool(TRUE)), P("enum", EnumAB),
     P("regex", ReAlnum8), P("match", ReLowerWord),
     P("default", Str(<<"a">>)), P("default", Num(0)), P("ref", Str(<<"User">>)), P("unique", Bool(TRUE)),
     P("items", Obj(<<P("type", Str(<<"S","t","r","i","n","g">>))>>))}

\* the modifier lists of at most MaxMods entries with distinct names
ModSeqs ==
    UNION { { q \in [1..n -> ModPool] : \A i, j \in 1..n : i # j => q[i].k # q[j].k } :
            n \in 0..MaxMods }

WithType(tok, mods) == Obj(<<P("type", tok)>> \o mods)

FieldSpecs ==
    { WithType(tok, q) : tok \in RichTypes, q \in ModSeqs }
    \cup { WithType(tok, <<>>) : tok \in TypeTokens }
    \cup { Obj(<<>>) }

NoOptions == Obj(<<>>)

\* the arguments of one getCustomMessage call: rule kind and value
MsgArgs(rule, value) == [rule |-> rule, value |-> value]
NoArgs == MsgArgs("", Undefined)

----------------------------------------------------------------------------
(* Compiling one field with each compiler *)

Pending == "pending"
Done    == "done"

FieldDefinition(fName, props) == Obj(<<P(fName, props)>>)

InitField ==
    /\ fieldName \in FieldNames
    /\ fieldProps \in FieldSpecs
    /\ fieldOptions = NoOptions
    /\ phase = [zod |-> Pending, mongoose |-> Pending, norm |-> Done, msg |-> Done]
    /\ zodOut = Throw(Undefined)
    /\ mongoOut = Undefined
    /\ schemaCache = <<>> /\ nextRef = 1 /\ calls = <<>>
    /\ normIn = Undefined /\ normOut = NormThrow(Undefined)
    /\ msgArgs = NoArgs /\ msgOut = Undefined
    /\ callers = <<>>

\* createZodSchema({ [fieldName]: fieldProps }, fieldOptions)
CompileValidation ==
    /\ phase.zod = Pending
    /\ zodOut' = createZodSchema(FieldDefinition(fieldName, fieldProps), fieldOptions)
    /\ phase' = [phase EXCEPT !.zod = Done]
    /\ UNCHANGED <<fieldName, fieldProps, fieldOptions, mongoOut, schemaCache, nextRef, calls,
                   normIn, normOut, msgArgs, msgOut, callers>>

\* createMongooseSchema({ [fieldName]: fieldProps }, fieldOptions)
CompilePersistence ==
    /\ phase.mongoose = Pending
    /\ mongoOut' = createMongooseSchema(FieldDefinition(fieldName, fieldProps), fieldOptions)
    /\ phase' = [phase EXCEPT !.mongoose = Done]
    /\ UNCHANGED <<fieldName, fieldProps, fieldOptions, zodOut, schemaCache, nextRef, calls,
                   normIn, normOut, msgArgs, msgOut, callers>>

NextField == CompileValidation \/ CompilePersistence

SpecField == InitField /\ [][NextField]_vars

\* the compiled validation rule and persistence config of the field
FieldRule   == zodOut.val.shape[1].v
FieldConfig == Get(Get(mongoOut, "obj"), fieldName)
ZodDone     == phase.zod = Done
MongooseDone == phase.mongoose = Done

----------------------------------------------------------------------------
(* Calls of createSchemas against the process-wide cache *)

n_tags == <<"t","a","g","s">>

D_string  == Obj(<<P(n_name, WithType(Str(<<"S","t","r","i","n","g">>),
                                      <<P("required", Bool(TRUE))>>))>>)
D_const   == Obj(<<P(n_name, WithType(cString, <<>>))>>)
D_mixed   == Obj(<<P(n_name, WithType(cMixed, <<>>))>>)
D_foo     == Obj(<<P(n_name, WithType(Str(<<"f","o","o">>), <<>>))>>)
D_two     == Obj(<<P(n_name, WithType(Str(<<"s","t","r","i","n","g">>), <<>>)),
                   P(n_tags, WithType(Str(<<"A","r","r","a","y">>),
                       <<P("items", Obj(<<P("type", Str(<<"S","t","r","i","n","g">>))>>)),
                         P("max", Num(2))>>))>>)

Definitions == {D_string, D_const, D_mixed, D_foo, D_two}

OptionsPool ==
    {NoOptions, Obj(<<P("enableCache", Bool(FALSE))>>), Obj(<<P("enableCache", Bool(TRUE))>>)}

Call(d, o, out) == [def |-> d, options |-> o, out |-> out]

Init ==
    /\ schemaCache = <<>>
    /\ nextRef = 1
    /\ calls = <<>>
    /\ phase = [zod |-> Done, mongoose |-> Done, norm |-> Done, msg |-> Done]
    /\ fieldName = n_name /\ fieldProps = Obj(<<>>) /\ fieldOptions = NoOptions
    /\ zodOut = Throw(Undefined) /\ mongoOut = Undefined
    /\ normIn = Undefined /\ normOut = NormThrow(Undefined)
    /\ msgArgs = NoArgs /\ msgOut = Undefined
    /\ callers = <<>>

\* one call createSchemas(d, o) by the application
CreateSchemasCall(d, o) ==
    /\ Len(calls) < MaxCalls
    /\ \E r \in {createSchemas(schemaCache, nextRef, d, o)} :
       /\ schemaCache' = r.cache
       /\ calls' = Append(calls, Call(d, o, r.out))
       /\ nextRef' = IF r.out.ok /\ r.out.pair.ref = nextRef THEN nextRef + 1 ELSE nextRef
    /\ UNCHANGED <<phase, fieldName, fieldProps, fieldOptions, zodOut, mongoOut,
                   normIn, normOut, msgArgs, msgOut, callers>>

Next == \E d \in Definitions, o \in OptionsPool : CreateSchemasCall(d, o)

Spec == Init /\ [][Next]_vars

----------------------------------------------------------------------------
(* Claims about the cache *)

KeyOf(c) == generateCacheKey(c.def, SchemaOptions(c.options))
SameInput(c1, c2) ==
    c1.def = c2.def /\ SchemaOptions(c1.options) = SchemaOptions(c2.options)
LastCall == calls[Len(calls)]
CachedRefs(cache) == { cache[i].v.ref : i \in 1..Len(cache) }

\* C1: of two calls with caching enabled and structurally identical (definition,
\* options without enableCache), the later returns the very pair object the
\* earlier returned, whatever calls came in between.
C1_SameReference ==
    \A i, j \in 1..Len(calls) :
        ( /\ i < j
          /\ EnableCache(calls[i].options) /\ EnableCache(calls[j].options)
          /\ SameInput(calls[i], calls[j])
          /\ calls[i].out.ok )
        => calls[j].out.ok /\ calls[j].out.pair.ref = calls[i].out.pair.ref

\* two identical cache-enabled calls around a call with another definition
C1_Witness ==
    /\ Len(calls) = 3
    /\ EnableCache(calls[1].options) /\ EnableCache(calls[3].options)
    /\ SameInput(calls[1], calls[3])
    /\ calls[2].def # calls[1].def
    /\ calls[1].out.ok /\ calls[2].out.ok
    /\ calls[3].out.pair.ref = calls[1].out.pair.ref
    /\ calls[2].out.pair.ref # calls[1].out.pair.ref

\* C2: a call with enableCache:false leaves the cache as it was and, when it
\* returns, returns a pair built by this call (one no cache entry and no earlier
\* call holds), also when an entry for its key exists.
C2_DisabledBypasses ==
    [][ ( /\ Len(calls') = Len(calls) + 1
          /\ ~EnableCache(calls'[Len(calls')].options) )
        => ( /\ schemaCache' = schemaCache
             /\ calls'[Len(calls')].out.ok =>
                  /\ calls'[Len(calls')].out.pair.ref \notin CachedRefs(schemaCache)
                  /\ \A i \in 1..Len(calls) :
                        calls[i].out.ok =>
                            calls[i].out.pair.ref # calls'[Len(calls')].out.pair.ref ) ]_vars

\* a disabled call that returned although the cache held an entry for its key
C2_Witness ==
    /\ Len(calls) >= 2
    /\ ~EnableCache(LastCall.options)
    /\ LastCall.out.ok
    /\ CacheHas(schemaCache, KeyOf(LastCall))
    /\ \E i \in 1..(Len(calls) - 1) :
          /\ SameInput(calls[i], LastCall) /\ EnableCache(calls[i].options)
          /\ calls[i].out.ok /\ calls[i].out.pair.ref # LastCall.out.pair.ref

\* the definition has a field whose type token the validation compiler rejects
Unresolvable(defn) ==
    \E i \in 1..Len(defn.o) :
        defn.o[i].v.t = "object" /\ ~ZodBaseType(defn.o[i].v, NoOptions).ok

\* C3: a call on a definition with an unresolvable type token raises, returns
\* no pair and leaves the cache as it was.
C3_UnresolvedRaises ==
    [][ ( /\ Len(calls') = Len(calls) + 1
          /\ Unresolvable(calls'[Len(calls')].def) )
        => ( /\ ~calls'[Len(calls')].out.ok
             /\ calls'[Len(calls')].out.pair = NoPair
             /\ schemaCache' = schemaCache ) ]_vars

----------------------------------------------------------------------------
(* Claims about type resolution and the validation rule of a field *)

TypeToken == Get(fieldProps, "type")
NineNames == AliasWords \ {s_object_id}

\* the token matches neither a primitive constant nor an alias in any casing
Unmatched(tok) ==
    tok \notin PrimitiveConstants /\ ~(tok.t = "string" /\ ToLowerCase(tok.s) \in AliasWords)

\* the alias table of the persistence target and of the validation target
PersistenceAlias(w) ==
    CASE w = s_string -> cString [] w = s_number -> cNumber [] w = s_boolean -> cBoolean
      [] w = s_date -> cDate [] w = s_array -> cArray [] w = s_object -> cMixed
      [] w \in {s_objectid, s_object_id} -> cObjectId [] w = s_mixed -> cMixed
      [] w = s_map -> cMap
ValidationAlias(w) ==
    CASE w = s_string -> ZString [] w = s_number -> ZNumber [] w = s_boolean -> ZBoolean
      [] w = s_date -> ZDate [] w = s_array -> ZArray(ZAny) [] w = s_object -> ZOpenObject
      [] w \in {s_objectid, s_object_id} -> ZObjectId [] w = s_mixed -> ZAny
      [] w = s_map -> ZMap
ConstantName(c) ==
    CASE c = cString -> s_string [] c = cNumber -> s_number [] c = cBoolean -> s_boolean
      [] c = cDate -> s_date [] c = cArray -> s_array [] c = cObject -> s_object
      [] c = cMap -> s_map [] c = cObjectId -> s_objectid [] c = cMixed -> s_mixed

\* z is the base rule, possibly with refinements and wrappers added after it
SameBase(z, base) ==
    /\ z.type = base.type /\ z.mode = base.mode /\ z.item = base.item /\ z.shape = base.shape
    /\ Len(z.checks) >= Len(base.checks)
    /\ SubSeq(z.checks, 1, Len(base.checks)) = base.checks

\* C4: for a type token that matches no constant and no alias, the persistence
\* config takes the token itself as its type and the validation compiler raises
\* an error that names the token.
C4_UnmatchedAsymmetry ==
    (fieldProps.t = "object" /\ Unmatched(TypeToken)) =>
        /\ MongooseDone => Get(FieldConfig, "type") = TypeToken
        /\ ZodDone => /\ ~zodOut.ok
                      /\ zodOut.err = Error("Error", <<"Invalid type: ">> \o ToStringSegs(TypeToken))

\* the token 'foo' compiled by both compilers
C4_Witness ==
    /\ ZodDone /\ MongooseDone
    /\ TypeToken = Str(<<"f","o","o">>)
    /\ ~zodOut.ok
    /\ Get(FieldConfig, "type") = TypeToken

\* C5: in both compilers every casing of each of the nine type names resolves
\* to the type the alias table gives the name.
C5_CaseInsensitive ==
    (fieldProps = WithType(TypeToken, <<>>) /\ TypeToken.t = "string"
       /\ ToLowerCase(TypeToken.s) \in NineNames) =>
        /\ MongooseDone => Get(FieldConfig, "type") = PersistenceAlias(ToLowerCase(TypeToken.s))
        /\ ZodDone => zodOut.ok /\ SameBase(FieldRule, ValidationAlias(ToLowerCase(TypeToken.s)))

\* C6: for each of the nine primitive constants the validation compiler builds
\* the base rule of the string alias of the same name and never raises.
C6_ConstantsResolve ==
    (fieldProps = WithType(TypeToken, <<>>) /\ TypeToken \in PrimitiveConstants /\ ZodDone) =>
        zodOut.ok /\ SameBase(FieldRule, ValidationAlias(ConstantName(TypeToken)))

HasDefault == fieldProps.t = "object" /\ Get(fieldProps, "default") # Undefined
KeyIndex(props, k) == CHOOSE i \in 1..Len(props.o) : props.o[i].k = k

\* C7: a field with `default` set and `required` not explicitly true compiles to
\* an optional rule: the schema accepts an input without the field.
C7_DefaultOptional ==
    (ZodDone /\ zodOut.ok /\ HasDefault /\ Get(fieldProps, "required") # Bool(TRUE)) =>
        DefType(FieldRule) = "optional" /\ Accepts(zodOut.val, Obj(<<>>))

\* a default followed by an enum, which replaces the rule the default wrapped
C7_Witness ==
    /\ ZodDone /\ zodOut.ok /\ HasDefault
    /\ HasKey(fieldProps, "enum")
    /\ KeyIndex(fieldProps, "default") < KeyIndex(fieldProps, "enum")
    /\ DefType(FieldRule) = "optional"
    /\ FieldRule.wraps = <<Wrap("optional", Undefined)>>

HasEnum == fieldProps.t = "object" /\ Get(fieldProps, "enum").t = "array"
EnumProbes == {<<"a">>, <<"A">>, <<"b">>, <<"B">>, <<"c">>, <<"a","b">>, <<>>}
EnumMember(s) ==
    \E i \in 1..Len(Get(fieldProps, "enum").a) :
        ToLowerCase(Get(fieldProps, "enum").a[i].s) = ToLowerCase(s)

\* C8 as stated: an enum field's rule is a string rule that accepts an input
\* iff its lowercase form is in the lowercased enum.
C8_EnumMembership ==
    (ZodDone /\ zodOut.ok /\ HasEnum) =>
        /\ FieldRule.type = "string"
        /\ \A s \in EnumProbes : AcceptsBase(FieldRule, Str(s)) <=> EnumMember(s)

\* no modifier after `enum` adds a string check
NoStringCheckAfterEnum ==
    \A i \in 1..Len(fieldProps.o) :
        i > KeyIndex(fieldProps, "enum") =>
            fieldProps.o[i].k \notin {"minlength", "minLength", "maxlength", "maxLength",
                                      "email", "regex", "match"}

\* C8 amended: an enum field's rule is a string rule that accepts a string only
\* if its lowercase form is in the lowercased enum, and accepts every such
\* string when no minlength, maxlength, email, regex or match modifier follows
\* `enum` and the field name does not contain "password".
C8_EnumMembershipAmended ==
    (ZodDone /\ zodOut.ok /\ HasEnum) =>
        /\ FieldRule.type = "string"
        /\ \A s \in EnumProbes :
             /\ AcceptsBase(FieldRule, Str(s)) => EnumMember(s)
             /\ (NoStringCheckAfterEnum /\ ~Includes(ToLowerCase(fieldName), s_password)
                   /\ EnumMember(s)) => AcceptsBase(FieldRule, Str(s))

\* {type:'Number', enum:['A','B']}: "a" passes and "c" fails
C8_Witness ==
    /\ ZodDone /\ zodOut.ok
    /\ fieldProps = WithType(Str(<<"N","u","m","b","e","r">>), <<P("enum", EnumAB)>>)
    /\ AcceptsBase(FieldRule, Str(<<"a">>))
    /\ ~AcceptsBase(FieldRule, Str(<<"c">>))

StringTyped == TypeToken = cString \/ TypeStr(TypeToken) = s_string
HasPasswordPattern(z) == \E i \in 1..Len(z.checks) : z.checks[i].re = ReDefaultPassword

\* C9: on a string-typed field the strong-password pattern is added iff the
\* name contains "password" and the spec has neither `regex` nor `match`.
C9_PasswordHeuristic ==
    (ZodDone /\ zodOut.ok /\ fieldProps.t = "object" /\ StringTyped) =>
        ( HasPasswordPattern(FieldRule) <=>
            ( /\ Includes(ToLowerCase(fieldName), s_password)
              /\ ~HasKey(fieldProps, "regex") /\ ~HasKey(fieldProps, "match") ) )

----------------------------------------------------------------------------
(* Normalizing the failures of the validation engine *)

IssuePool ==
    {Obj(<<P("path", Arr(<<Str(<<"email">>)>>)), P("message", Str(<<"Invalid email">>)),
           P("code", Str(<<"invalid_format">>)), P("input", Str(<<"x">>)),
           P("format", Str(<<"email">>))>>),
     Obj(<<P("path", Arr(<<Str(<<"a">>), Str(<<"b">>)>>)), P("code", Str(<<"too_small">>)),
           P("received", Str(<<"r">>)), P("expected", Str(<<"string">>))>>),
     Obj(<<P("path", Arr(<<Str(<<"tags">>), Num(1)>>)), P("message", Str(<<"m">>))>>),
     Obj(<<P("path", Arr(<<>>)), P("message", Str(<<"m">>))>>),
     Obj(<<P("path", Arr(<<Str(<<"n">>)>>)), P("input", Num(0)), P("received", Str(<<"r">>))>>),
     Obj(<<P("path", Str(<<"name">>)), P("message", Str(<<"m">>))>>),
     Obj(<<>>),
     Null,
     Undefined}

IssueLists == UNION { [1..n -> IssuePool] : n \in 0..MaxIssues }

Failures ==
    { Obj(<<P("issues", Arr(l))>>) : l \in IssueLists }
    \cup { Obj(<<P("errors", Arr(l))>>) : l \in IssueLists }
    \cup { Obj(<<P("issues", Arr(<<>>)), P("errors", Arr(l))>>) : l \in IssueLists }
    \cup { Obj(<<P("issues", Null), P("errors", Arr(l))>>) : l \in IssueLists }
    \cup { Obj(<<>>), Obj(<<P("issues", Str(<<"oops">>))>>), Null, Undefined }

InitNorm ==
    /\ normIn \in Failures
    /\ normOut = NormThrow(Undefined)
    /\ phase = [zod |-> Done, mongoose |-> Done, norm |-> Pending, msg |-> Done]
    /\ schemaCache = <<>> /\ nextRef = 1 /\ calls = <<>>
    /\ fieldName = n_name /\ fieldProps = Obj(<<>>) /\ fieldOptions = NoOptions
    /\ zodOut = Throw(Undefined) /\ mongoOut = Undefined
    /\ msgArgs = NoArgs /\ msgOut = Undefined
    /\ callers = <<>>

\* normalizeZodErrors(normIn) by the caller that caught the failure
Normalize ==
    /\ phase.norm = Pending
    /\ normOut' = normalizeZodErrors(normIn)
    /\ phase' = [phase EXCEPT !.norm = Done]
    /\ UNCHANGED <<normIn, schemaCache, nextRef, calls, fieldName, fieldProps, fieldOptions,
                   zodOut, mongoOut, msgArgs, msgOut, callers>>

NextNorm == Normalize

SpecNorm == InitNorm /\ [][NextNorm]_vars

NormDone == phase.norm = Done

\* a failure object whose collections, where present, are sequences
FailureObject ==
    /\ normIn.t = "object"
    /\ \A k \in {"issues", "errors"} : Get(normIn, k).t \in {"undefined", "null", "array"}

\* C10: normalizeErrors never throws and returns an array with one record per
\* entry, whatever the failure object exposes and however malformed its entries.
C10_NeverThrows ==
    (NormDone /\ FailureObject) =>
        /\ normOut.ok
        /\ normOut.val.t = "array"
        /\ Len(normOut.val.a) = Len(ErrorList(normIn).a)

\* the collection the normalizer is to read: `issues` if present, else `errors`,
\* else the empty sequence
ChosenCollection(error) ==
    IF Get(error, "issues").t = "array" THEN Get(error, "issues").a
    ELSE IF Get(error, "errors").t = "array" THEN Get(error, "errors").a
    ELSE <<>>

DefaultTo(x, d) == IF x = Undefined THEN d ELSE x

\* the record an entry is to give
EntryRecord(err) ==
    Obj(<<P("field", IF Get(err, "path").t = "array"
                     THEN Str(JoinSegs(Get(err, "path").a, ".", 1))
                     ELSE Str(<<"unknown">>)),
          P("message", DefaultTo(Get(err, "message"), Str(<<"Validation failed">>))),
          P("code", DefaultTo(Get(err, "code"), Str(<<"unknown">>))),
          P("value", IF HasKey(err, "input") THEN Get(err, "input") ELSE Get(err, "received")),
          P("type", DefaultTo(Get(err, "expected"),
                              DefaultTo(Get(err, "format"), Str(<<"unknown">>))))>>)

\* C11: when normalizeErrors returns, it returns one record per entry of the
\* chosen collection, in order, with field, message, code, value (the entry's
\* `input` when it has one, else its `received`) and type as specified.
C11_RecordPerEntry ==
    (NormDone /\ normOut.ok) =>
        normOut.val = Arr([i \in 1..Len(ChosenCollection(normIn)) |->
                              EntryRecord(ChosenCollection(normIn)[i])])

----------------------------------------------------------------------------
(* Compiling the persistence config of a field from every modifier *)

NestedDefinition == Obj(<<P(n_name, WithType(Str(<<"S","t","r","i","n","g">>), <<>>))>>)

PersistModPool ==
    {P("required", Bool(TRUE)), P("unique", Bool(TRUE)),
     P("minlength", Num(2)), P("minLength", Num(8)),
     P("maxlength", Num(5)), P("maxLength", Num(9)),
     P("min", Num(1)), P("max", Num(2)),
     P("default", Str(<<"a">>)), P("ref", Str(<<"User">>)),
     P("select", Bool(FALSE)), P("sparse", Bool(TRUE)), P("index", Bool(TRUE)),
     P("text", Bool(TRUE)), P("immutable", Bool(TRUE)),
     P("transform", Fn("transform")), P("get", Fn("getter")), P("set", Fn("setter")),
     P("schema", NestedDefinition),
     P("enum", EnumAB), P("enum", Str(<<"A">>)),
     P("email", Bool(TRUE)), P("email", Bool(FALSE)),
     P("regex", ReAlnum8), P("match", ReLowerWord), P("regex", Str(<<"^a">>)),
     P("items", Obj(<<P("type", Str(<<"S","t","r","i","n","g">>))>>)),
     P("items", Obj(<<P("type", Str(<<"O","b","j","e","c","t","I","d">>)),
                      P("ref", Str(<<"Post">>))>>))}

PersistModSeqs ==
    UNION { { q \in [1..n -> PersistModPool] : \A i, j \in 1..n : i # j => q[i].k # q[j].k } :
            n \in 0..MaxMods }

PersistTypes == {cString, Str(<<"A","r","r","a","y">>), Str(<<"o","b","j","e","c","t">>)}

PersistSpecs == { WithType(tok, q) : tok \in PersistTypes, q \in PersistModSeqs }

InitPersist ==
    /\ fieldName = n_name
    /\ fieldProps \in PersistSpecs
    /\ fieldOptions = NoOptions
    /\ phase = [zod |-> Done, mongoose |-> Pending, norm |-> Done, msg |-> Done]
    /\ zodOut = Throw(Undefined)
    /\ mongoOut = Undefined
    /\ schemaCache = <<>> /\ nextRef = 1 /\ calls = <<>>
    /\ normIn = Undefined /\ normOut = NormThrow(Undefined)
    /\ msgArgs = NoArgs /\ msgOut = Undefined
    /\ callers = <<>>

NextPersist == CompilePersistence

SpecPersist == InitPersist /\ [][NextPersist]_vars

----------------------------------------------------------------------------
(* Claims about the persistence config of a field *)

\* C12 as stated: the persistence config of a field never has an `enum` key:
\* the enum modifier is enforced by the validation rule only.
C12_EnumNotCopied ==
    MongooseDone => ~HasKey(FieldConfig, "enum")

\* C12 amended: the persistence config has an `enum` key exactly when the
\* spec's `enum` modifier is a sequence, and then it holds that sequence as given.
C12_EnumCopied ==
    MongooseDone =>
        IF Get(fieldProps, "enum").t = "array"
        THEN Get(FieldConfig, "enum") = Get(fieldProps, "enum")
        ELSE ~HasKey(FieldConfig, "enum")

\* an enum sequence copied next to another modifier
C12_Witness ==
    /\ MongooseDone
    /\ Get(fieldProps, "enum") = EnumAB
    /\ HasKey(fieldProps, "required")
    /\ Get(FieldConfig, "enum") = EnumAB

\* the entry attaches a format check: email: true, or a regex/match pattern
IsFormatModifier(e) ==
    \/ e.k = "email" /\ e.v = Bool(TRUE)
    \/ e.k \in {"regex", "match"} /\ e.v.t \in {"regexp", "string"}
FormatCheckOf(e) == IF e.k = "email" THEN EmailValidate ELSE RegexValidate(e.v)
FormatModifiers == { i \in 1..Len(fieldProps.o) : IsFormatModifier(fieldProps.o[i]) }
LastFormatModifier == CHOOSE i \in FormatModifiers : \A j \in FormatModifiers : j <= i

\* C13: the persistence config carries at most one format check, the one of the
\* last of the email / regex / match modifiers in the spec's iteration order.
C13_LastFormatCheckWins ==
    MongooseDone =>
        /\ Cardinality({ i \in 1..Len(FieldConfig.o) : FieldConfig.o[i].k = "validate" }) <= 1
        /\ IF FormatModifiers = {} THEN ~HasKey(FieldConfig, "validate")
           ELSE Get(FieldConfig, "validate") = FormatCheckOf(fieldProps.o[LastFormatModifier])

\* a pattern followed by email: true: the email check replaced the pattern check
C13_Witness ==
    /\ MongooseDone
    /\ HasKey(fieldProps, "regex") /\ Get(fieldProps, "email") = Bool(TRUE)
    /\ KeyIndex(fieldProps, "regex") < KeyIndex(fieldProps, "email")
    /\ Get(FieldConfig, "validate") = EmailValidate

CopiedModifiers ==
    {"required", "unique", "minlength", "maxlength", "min", "max", "default", "ref",
     "select", "sparse", "index", "text", "immutable", "transform", "get", "set"}

SchemaNotExpanded ==
    HasKey(fieldProps, "schema") =>
        /\ ~HasKey(FieldConfig, "schema")
        /\ \A i \in 1..Len(FieldConfig.o) : FieldConfig.o[i].v # Get(fieldProps, "schema")
        /\ Get(FieldConfig, "type") = MongooseType(TypeToken)
           \/ HasKey(fieldProps, "items")

LastSpelled(lower, camel) ==
    LET idx == { i \in 1..Len(fieldProps.o) : fieldProps.o[i].k \in {lower, camel} } IN
    fieldProps.o[CHOOSE i \in idx : \A j \in idx : j <= i].v

\* an ObjectId `items` spec with a `ref` of its own, on an Array field, after k
ItemsRefAfter(k) ==
    /\ HasKey(fieldProps, "items")
    /\ KeyIndex(fieldProps, "items") > KeyIndex(fieldProps, k)
    /\ MongooseType(TypeToken) = cArray
    /\ TypeStr(Get(Get(fieldProps, "items"), "type")) \in {s_objectid, s_object_id}
    /\ Truthy(Get(Get(fieldProps, "items"), "ref"))

----------------------------------------------------------------------------
(* Compiling the validation rule of a field under options with custom messages *)

n_email   == s_email
n_age     == <<"a","g","e">>
n_phone   == s_phone
n_website == <<"w","e","b","U","r","l">>
n_profile == <<"p","r","o","f","i","l","e">>

MessageFieldNames == {n_name, n_email, n_age, n_password, n_phone, n_website, n_tags, n_profile}

\* the key "<field>.<rule>" of a custom message
MessageKey(fName, rule) == fName \o <<".", rule>>

\* the options of the two custom-message examples of the README
OptionsReadmeSmart ==
    Obj(<<P("customMessages", Obj(<<
        P(MessageKey(n_email, "regex"), Str(<<"Please provide a valid email address">>)),
        P(MessageKey(n_password, "minLength"),
          Str(<<"Password must be at least 8 characters">>))>>))>>)
OptionsReadmeErrors ==
    Obj(<<P("customMessages", Obj(<<
        P(MessageKey(n_name, "minlength"), Str(<<"Name must be at least 3 characters long">>)),
        P(MessageKey(n_email, "email"), Str(<<"Please provide a valid email address">>)),
        P(MessageKey(n_age, "min"), Str(<<"Age must be a positive number">>))>>))>>)

MessageOptions ==
    {NoOptions, Obj(<<P("customMessages", Obj(<<>>))>>), OptionsReadmeSmart, OptionsReadmeErrors}

StringSpec(mods) == WithType(Str(<<"s","t","r","i","n","g">>), mods)
ItemsOfString    == P("items", Obj(<<P("type", Str(<<"S","t","r","i","n","g">>))>>))

\* a nested definition whose field has a rule with a message
NestedMessageDefinition == Obj(<<P(n_name, StringSpec(<<P("minlength", Num(3))>>))>>)

ObjectTokens ==
    {Str(<<"o","b","j","e","c","t">>), Str(<<"O","b","j","e","c","t">>),
     Str(<<"O","B","J","E","C","T">>), cObject}

ArrayTokens == {Str(<<"A","r","r","a","y">>), Str(<<"a","r","r","a","y">>), cArray}

MessageSpecs ==
    { StringSpec(<<m>>) :
        m \in {P("minlength", Num(3)), P("minLength", Num(8)), P("maxlength", Num(5)),
               P("email", Bool(TRUE)), P("enum", EnumAB),
               P("regex", ReLowerWord), P("match", ReLowerWord), P("regex", ReDigits),
               P("regex", ReAtSign), P("regex", ReHttp), P("regex", ReLookahead)} }
    \cup { WithType(Str(<<"n","u","m","b","e","r">>), <<P("min", Num(0)), P("max", Num(120))>>) }
    \cup { WithType(tok, <<P("schema", NestedMessageDefinition)>>) : tok \in ObjectTokens }
    \cup { WithType(tok, <<>>) : tok \in ObjectTokens }
    \cup { WithType(tok, <<ItemsOfString, P("min", Num(0)), P("max", Num(2))>>) :
             tok \in ArrayTokens }
    \cup { WithType(tok, q) :
             tok \in ArrayTokens,
             q \in { <<P("max", Num(2)), P("min", Num(2)), ItemsOfString>>,
                     <<ItemsOfString, P("required", Bool(FALSE)), P("max", Num(2))>>,
                     <<ItemsOfString, P("default", Arr(<<>>)), P("min", Num(2))>> } }

InitMessages ==
    /\ fieldName \in MessageFieldNames
    /\ fieldProps \in MessageSpecs
    /\ fieldOptions \in MessageOptions
    /\ phase = [zod |-> Pending, mongoose |-> Done, norm |-> Done, msg |-> Done]
    /\ zodOut = Throw(Undefined)
    /\ mongoOut = Undefined
    /\ schemaCache = <<>> /\ nextRef = 1 /\ calls = <<>>
    /\ normIn = Undefined /\ normOut = NormThrow(Undefined)
    /\ msgArgs = NoArgs /\ msgOut = Undefined
    /\ callers = <<>>

NextMessages == CompileValidation

SpecMessages == InitMessages /\ [][NextMessages]_vars

CustomMessages == CustomMessagesOf(fieldOptions)

\* schema.safeParse({ [fieldName]: v }).error.issues
ParseIssues(v) == RuleIssues(zodOut.val, Obj(<<P(fieldName, v)>>), <<>>)

----------------------------------------------------------------------------
(* Claims about nested objects, messages and array bounds *)

ObjectTyped == TypeToken = cObject \/ TypeStr(TypeToken) = s_object

\* C15: an Object-typed field (alias in any casing, or the Object constant) with
\* `schema` has the nested definition compiled with the call's options as its
\* rule; without `schema` its rule is an open object.
C15_NestedObject ==
    (ZodDone /\ fieldProps.t = "object" /\ ObjectTyped) =>
        /\ zodOut.ok
        /\ IF Truthy(Get(fieldProps, "schema"))
           THEN LET nested == createZodSchema(Get(fieldProps, "schema"), fieldOptions) IN
                nested.ok /\ SameBase(FieldRule, nested.val)
           ELSE SameBase(FieldRule, ZOpenObject)

\* the heuristic message of a pattern check, else the generic one
HeuristicMessage(fName, regexStr) ==
    LET lname == ToLowerCase(fName) IN
    IF Includes(lname, s_email) \/ Includes(regexStr, <<"@">>)
    THEN Str(fName \o <<" must be a valid email address">>)
    ELSE IF Includes(lname, s_password)
            \/ Includes(regexStr, <<"(","?","=",".","*","\\","d",")">>)
    THEN Str(fName \o <<" must contain at least one lowercase letter, one uppercase letter, one number, and one special character.">>)
    ELSE IF Includes(lname, s_phone) \/ Includes(regexStr, <<"\\","d">>)
    THEN Str(fName \o <<" must be a valid phone number">>)
    ELSE IF Includes(lname, s_url) \/ Includes(regexStr, s_http)
    THEN Str(fName \o <<" must be a valid URL">>)
    ELSE Str(fName \o <<" format is invalid">>)

\* the pattern checks a regex / match modifier of the spec put on the rule
PatternChecks ==
    { i \in 1..Len(FieldRule.checks) :
        /\ FieldRule.checks[i].kind = "regex"
        /\ \E j \in 1..Len(fieldProps.o) :
              /\ fieldProps.o[j].k \in {"regex", "match"}
              /\ FieldRule.checks[i].re = ToRegExp(fieldProps.o[j].v) }

\* C16: the message of a regex / match check on a string-typed field is the
\* custom message under "<field>.regex" when supplied, else the heuristic
\* message the name or the pattern selects, else "<field> format is invalid".
C16_RegexMessageOrder ==
    (ZodDone /\ zodOut.ok /\ fieldProps.t = "object" /\ StringTyped) =>
        \A i \in PatternChecks :
            FieldRule.checks[i].msg =
                IF HasKey(CustomMessages, MessageKey(fieldName, "regex"))
                THEN Get(CustomMessages, MessageKey(fieldName, "regex"))
                ELSE HeuristicMessage(fieldName, FieldRule.checks[i].re.s)

\* the check kind a rule modifier compiles to
CheckKindOf(k) ==
    CASE k \in {"minlength", "minLength", "min"} -> "min"
      [] k \in {"maxlength", "maxLength", "max"} -> "max"
      [] k = "email" -> "email"
      [] k \in {"regex", "match"} -> "regex"
      [] k = "enum" -> "refine_enum"
      [] OTHER -> "none"

RuleModifiers ==
    {"minlength", "minLength", "maxlength", "maxLength", "min", "max", "email", "regex",
     "match", "enum"}

\* C18: a rule of the field for which customMessages holds "<field>.<rule>"
\* reports that message: the check the modifier compiles to carries it.
C18_CustomMessageUsed ==
    (ZodDone /\ zodOut.ok /\ fieldProps.t = "object") =>
        \A j \in 1..Len(fieldProps.o) :
            ( /\ fieldProps.o[j].k \in RuleModifiers
              /\ HasKey(CustomMessages, MessageKey(fieldName, fieldProps.o[j].k)) )
            => /\ \E i \in 1..Len(FieldRule.checks) :
                     FieldRule.checks[i].kind = CheckKindOf(fieldProps.o[j].k)
               /\ \A i \in 1..Len(FieldRule.checks) :
                     ( /\ FieldRule.checks[i].kind = CheckKindOf(fieldProps.o[j].k)
                       /\ FieldRule.checks[i].re # ReDefaultPassword )
                     => FieldRule.checks[i].msg =
                            Get(CustomMessages, MessageKey(fieldName, fieldProps.o[j].k))

ArrayTyped == TypeToken = cArray \/ TypeStr(TypeToken) = s_array

ArrayProbes ==
    {Arr(<<>>), Arr(<<Str(<<"a">>)>>), Arr(<<Str(<<"a">>), Str(<<"b">>)>>),
     Arr(<<Str(<<"a">>), Str(<<"b">>), Str(<<"c">>)>>)}

HasIssue(v, code) ==
    \E is \in ParseIssues(v) : is.path = <<Str(fieldName)>> /\ is.code = code

\* C19: on an Array-typed field with `items`, `min` and `max` bound the number
\* of items: an input with more items than `max` fails with a too-big issue on
\* the field, one with fewer than `min` with a too-small issue, and an input of
\* strings within the bounds passes.
C19_ArrayBounds ==
    (ZodDone /\ zodOut.ok /\ fieldProps.t = "object" /\ ArrayTyped
       /\ HasKey(fieldProps, "items")) =>
        \A v \in ArrayProbes :
            /\ (HasKey(fieldProps, "max") /\ Len(v.a) > Get(fieldProps, "max").n)
                  => HasIssue(v, "too_big")
            /\ (HasKey(fieldProps, "min") /\ Len(v.a) < Get(fieldProps, "min").n)
                  => HasIssue(v, "too_small")
            /\ ( /\ HasKey(fieldProps, "max") => Len(v.a) <= Get(fieldProps, "max").n
                 /\ HasKey(fieldProps, "min") => Len(v.a) >= Get(fieldProps, "min").n )
                  => ParseIssues(v) = {}

----------------------------------------------------------------------------
(* The message synthesizer getCustomMessage on its own *)

SynthRuleKinds ==
    {"required", "min", "max", "minlength", "maxlength", "email", "regex", "enum",
     "unique", "custom", "constructor"}

SynthValues == {Num(2), Str(<<"x">>), Undefined}

SynthOptions ==
    {NoOptions, OptionsReadmeErrors,
     Obj(<<P("customMessages", Obj(<<P(MessageKey(n_name, "minlength"), Str(<<>>))>>))>>),
     Obj(<<P("customMessages",
             Obj(<<P(MessageKey(n_name, "custom"), Str(<<"Custom rule failed">>))>>))>>)}

InitSynth ==
    /\ fieldName \in {n_name, n_age}
    /\ msgArgs \in { MsgArgs(rule, value) : rule \in SynthRuleKinds, value \in SynthValues }
    /\ fieldOptions \in SynthOptions
    /\ msgOut = Undefined
    /\ phase = [zod |-> Done, mongoose |-> Done, norm |-> Done, msg |-> Pending]
    /\ fieldProps = Obj(<<>>)
    /\ zodOut = Throw(Undefined)
    /\ mongoOut = Undefined
    /\ schemaCache = <<>> /\ nextRef = 1 /\ calls = <<>>
    /\ normIn = Undefined /\ normOut = NormThrow(Undefined)
    /\ callers = <<>>

\* getCustomMessage(fieldName, rule, value, customMessages)
Synthesize ==
    /\ phase.msg = Pending
    /\ msgOut' = getCustomMessage(fieldName, msgArgs.rule, msgArgs.value,
                                  CustomMessagesOf(fieldOptions))
    /\ phase' = [phase EXCEPT !.msg = Done]
    /\ UNCHANGED <<msgArgs, fieldName, fieldProps, fieldOptions, zodOut, mongoOut,
                   schemaCache, nextRef, calls, normIn, normOut, callers>>

NextSynth == Synthesize

SpecSynth == InitSynth /\ [][NextSynth]_vars

MessageDone == phase.msg = Done

EightKinds ==
    {"required", "min", "max", "minlength", "maxlength", "email", "regex", "enum"}

\* the default template of a rule kind: what is synthesized with no custom messages
DefaultTemplate(fName, rule, value) == getCustomMessage(fName, rule, value, Obj(<<>>))

\* C17: the synthesizer returns the entry under "<fieldName>.<ruleKind>" when
\* customMessages has one, else the default template of one of the eight rule
\* kinds, else "<fieldName> validation failed".
C17_MessageSynthesizer ==
    MessageDone =>
        msgOut =
            IF HasKey(CustomMessages, MessageKey(fieldName, msgArgs.rule))
            THEN Get(CustomMessages, MessageKey(fieldName, msgArgs.rule))
            ELSE IF msgArgs.rule \in EightKinds
                 THEN DefaultTemplate(fieldName, msgArgs.rule, msgArgs.value)
                 ELSE Str(fieldName \o <<" validation failed">>)

----------------------------------------------------------------------------
(* Calls of createSchemas with options for the persistence schema *)

f_hashPassword == Fn("hashPassword")
f_logSaved     == Fn("logSaved")
f_fullName     == Fn("fullName")

\* the options of the README's middleware example
PersistenceOptions ==
    Obj(<<P("schemaOptions", Obj(<<P("versionKey", Bool(FALSE))>>)),
          P("middleware", Obj(<<P("pre", Obj(<<P("save", f_hashPassword)>>)),
                                P("post", Obj(<<P("save", f_logSaved)>>))>>)),
          P("virtuals", Obj(<<P("fullName", f_fullName)>>)),
          P("indexes", Obj(<<P("email", Obj(<<P("unique", Bool(TRUE))>>))>>))>>)

HookOptionsPool ==
    {NoOptions,
     PersistenceOptions,
     Obj(<<P("persistenceOptions", PersistenceOptions)>>),
     Obj(<<P("enableCache", Bool(FALSE))>> \o PersistenceOptions.o),
     Obj(<<P("middleware", Obj(<<P("pre", Obj(<<P("save", f_logSaved)>>))>>))>>),
     Obj(<<P("middleware", Obj(<<P("pre", Obj(<<P("save", f_hashPassword)>>))>>))>>)}

NextHooks == \E o \in HookOptionsPool : CreateSchemasCall(D_string, o)

SpecHooks == Init /\ [][NextHooks]_vars

\* the entries supplied under a key of an options object, none when absent
Supplied(o, k) == IF Get(o, k).t = "object" THEN Get(o, k).o ELSE <<>>

\* the persistence schema m carries exactly the hooks, virtuals and indexes of
\* the persistence options po, and every schema option of po
RegisteredOnce(m, po) ==
    /\ Get(m, "pre").o = Supplied(Get(po, "middleware"), "pre")
    /\ Get(m, "post").o = Supplied(Get(po, "middleware"), "post")
    /\ Get(m, "virtuals").o = Supplied(po, "virtuals")
    /\ Get(m, "indexes").o = Supplied(po, "indexes")
    /\ \A i \in 1..Len(Supplied(po, "schemaOptions")) :
          Get(Get(m, "options"), Supplied(po, "schemaOptions")[i].k)
              = Supplied(po, "schemaOptions")[i].v

\* the persistence options of a call: those under options.persistenceOptions,
\* and for a call without that key those at the top level of its options
PersistenceOptionsOf(options) ==
    IF HasKey(options, "persistenceOptions") THEN Get(options, "persistenceOptions")
    ELSE options

\* C20: the persistence options a call supplies are handed to the persistence
\* compiler: every supplied pre hook, post hook, virtual and index is registered
\* once on the persistence schema of the pair the call returns.
C20_OptionsRegistered ==
    \A i \in 1..Len(calls) :
        calls[i].out.ok =>
            RegisteredOnce(calls[i].out.pair.mongooseSchema,
                           PersistenceOptionsOf(calls[i].options))

----------------------------------------------------------------------------
(* Claims about the lifetime of cache entries *)

\* C21: once a pair is stored under a key it is never removed or replaced: every
\* step keeps each entry of the cache, key and pair, so the set of cached keys
\* only grows and a key maps for ever to the first pair stored for it.
C21_EntriesKept ==
    [][ \A i \in 1..Len(schemaCache) :
            /\ i <= Len(schemaCache')
            /\ schemaCache'[i] = schemaCache[i] ]_vars

\* two keys are cached and a third call is answered with the first pair stored
C21_Witness ==
    /\ Len(calls) = 3
    /\ Len(schemaCache) = 2
    /\ KeyOf(calls[1]) = schemaCache[1].k /\ KeyOf(calls[2]) = schemaCache[2].k
    /\ EnableCache(calls[3].options) /\ KeyOf(calls[3]) = schemaCache[1].k
    /\ calls[3].out.ok /\ calls[3].out.pair = schemaCache[1].v
    /\ calls[1].out.pair = schemaCache[1].v

----------------------------------------------------------------------------
(* createSchemas in a concurrent host: a call is three steps, the lookup    *)
(* (index.js:25-32), the compilation (34-37) and the insert with the return *)
(* (39-44), and the steps of different calls interleave freely.             *)

RaceInputs ==
    {<<D_string, NoOptions>>,
     <<D_string, Obj(<<P("enableCache", Bool(FALSE))>>)>>,
     <<D_string, Obj(<<P("middleware", Obj(<<P("pre", Obj(<<P("save", f_logSaved)>>))>>))>>)>>,
     <<D_string, Obj(<<P("middleware", Obj(<<P("pre", Obj(<<P("save", f_hashPassword)>>))>>))>>)>>,
     <<D_two, NoOptions>>,
     <<D_foo, NoOptions>>}

\* a call in flight: pc is the step it takes next, hit tells that the lookup
\* answered it, raced that a step of another call fell between its lookup and
\* its insert (or that it stepped between those of another call)
Caller(d, o, pc, out, hit, raced) ==
    [def |-> d, options |-> o, pc |-> pc, out |-> out, hit |-> hit, raced |-> raced]

InWindow(c) == c.pc \in {"build", "store"}

\* the calls in flight after call p (0: a call that is only now starting) took a step
Overlap(cs, p) ==
    [q \in 1..Len(cs) |->
        IF q # p /\ InWindow(cs[q]) THEN [cs[q] EXCEPT !.raced = TRUE] ELSE cs[q]]
Overlapped(cs, p) == \E q \in 1..Len(cs) : q # p /\ InWindow(cs[q])

\* index.js:25-32
Lookup(d, o) ==
    /\ Len(callers) < MaxCallers
    /\ callers' =
         Append(Overlap(callers, 0),
                IF CacheLookup(schemaCache, d, o)
                THEN Caller(d, o, "done",
                            Returned(CacheGet(schemaCache,
                                              generateCacheKey(d, SchemaOptions(o)))),
                            TRUE, Overlapped(callers, 0))
                ELSE Caller(d, o, "build", Raised(Undefined), FALSE, Overlapped(callers, 0)))
    /\ UNCHANGED <<schemaCache, nextRef, calls, phase, fieldName, fieldProps, fieldOptions,
                   zodOut, mongoOut, normIn, normOut, msgArgs, msgOut>>

\* index.js:34-37
Build(p) ==
    /\ callers[p].pc = "build"
    /\ \E z \in {createZodSchema(callers[p].def, SchemaOptions(callers[p].options))} :
       \E m \in {createMongooseSchema(callers[p].def, SchemaOptions(callers[p].options))} :
          /\ callers' =
               [Overlap(callers, p) EXCEPT
                  ![p] = IF z.ok
                         THEN Caller(@.def, @.options, "store",
                                     Returned(Pair(nextRef, m, z.val)), FALSE,
                                     @.raced \/ Overlapped(callers, p))
                         ELSE Caller(@.def, @.options, "done", Raised(z.err), FALSE,
                                     @.raced \/ Overlapped(callers, p))]
          /\ nextRef' = IF z.ok THEN nextRef + 1 ELSE nextRef
    /\ UNCHANGED <<schemaCache, calls, phase, fieldName, fieldProps, fieldOptions,
                   zodOut, mongoOut, normIn, normOut, msgArgs, msgOut>>

\* index.js:39-44
Store(p) ==
    /\ callers[p].pc = "store"
    /\ schemaCache' = CacheStore(schemaCache, callers[p].def, callers[p].options,
                                 callers[p].out.pair)
    /\ callers' = [Overlap(callers, p) EXCEPT
                     ![p] = [@ EXCEPT !.pc = "done",
                                      !.raced = @ \/ Overlapped(callers, p)]]
    /\ UNCHANGED <<nextRef, calls, phase, fieldName, fieldProps, fieldOptions,
                   zodOut, mongoOut, normIn, normOut, msgArgs, msgOut>>

NextHost ==
    \/ \E io \in RaceInputs : Lookup(io[1], io[2])
    \/ \E p \in 1..Len(callers) : Build(p)
    \/ \E p \in 1..Len(callers) : Store(p)

SpecHost == Init /\ [][NextHost]_vars

\* the call compiled a pair itself
Built(c) == ~c.hit /\ c.out.ok
CallerKey(c) == generateCacheKey(c.def, SchemaOptions(c.options))

\* the pair is what compiling (definition, options) gives
Equivalent(pair, d, o) ==
    /\ pair.mongooseSchema = createMongooseSchema(d, SchemaOptions(o))
    /\ pair.zodSchema = createZodSchema(d, SchemaOptions(o)).val

\* C22: calls with one key that interleave between lookup and insert only
\* compile more than once: the cache holds one entry per key, a call that
\* returns its own compilation has the pair of its (definition, options) and,
\* with caching enabled, leaves its key cached; and two cache-enabled calls
\* compile the same key only when their steps interleaved, never when each
\* call runs from lookup to insert without a step of another call.
C22_BenignRace ==
    /\ \A i, j \in 1..Len(schemaCache) :
          schemaCache[i].k = schemaCache[j].k => i = j
    /\ \A p \in 1..Len(callers) :
          (callers[p].pc = "done" /\ Built(callers[p])) =>
             /\ Equivalent(callers[p].out.pair, callers[p].def, callers[p].options)
             /\ EnableCache(callers[p].options) =>
                   CacheHas(schemaCache, CallerKey(callers[p]))
    /\ \A p, q \in 1..Len(callers) :
          ( /\ p # q
            /\ Built(callers[p]) /\ Built(callers[q])
            /\ EnableCache(callers[p].options) /\ EnableCache(callers[q].options)
            /\ CallerKey(callers[p]) = CallerKey(callers[q]) )
          => callers[p].raced /\ callers[q].raced

\* two calls with the same input both missed, compiled and inserted: one entry
C22_Witness ==
    /\ Len(callers) = 2
    /\ callers[1].pc = "done" /\ callers[2].pc = "done"
    /\ callers[1].def = callers[2].def /\ callers[1].options = callers[2].options
    /\ EnableCache(callers[1].options)
    /\ Built(callers[1]) /\ Built(callers[2])
    /\ callers[1].out.pair.ref # callers[2].out.pair.ref
    /\ Len(schemaCache) = 1 /\ schemaCache[1].k = CallerKey(callers[1])

----------------------------------------------------------------------------
(* Claims about the order of the modifiers of a field *)

\* C23: a field whose spec has `required: false` compiles to an optional rule:
\* the schema accepts an input without the field, whatever the other modifiers
\* of the spec and their order.
C23_RequiredFalseOptional ==
    ( /\ ZodDone /\ zodOut.ok /\ fieldProps.t = "object"
      /\ Get(fieldProps, "required") = Bool(FALSE) )
    => Accepts(zodOut.val, Obj(<<>>))

\* the rule of the type alone, before any modifier
BaseRule == ZodBaseType(fieldProps, fieldOptions).val

StringGated == {"minlength", "minLength", "maxlength", "maxLength", "email"}
BoundGated  == {"min", "max"}

\* the gate of modifier k is open for the field's base rule
Gated(k) ==
    IF k \in StringGated THEN BaseRule.type = "string"
    ELSE BaseRule.type \in {"number", "array"}

\* the compiled rule carries the check of the j-th entry of the spec
Applied(j) ==
    \E i \in 1..Len(FieldRule.checks) :
        /\ FieldRule.checks[i].kind = CheckKindOf(fieldProps.o[j].k)
        /\ fieldProps.o[j].k # "email" => FieldRule.checks[i].n = fieldProps.o[j].v.n

\* C24: a type-gated modifier (minlength, maxlength, email: true on string
\* rules; min, max on number and array rules) is applied to the compiled rule
\* exactly when the base rule of the field has the gated type, wherever the
\* modifier stands among the entries of the spec.
C24_GatedByBaseType ==
    (ZodDone /\ zodOut.ok /\ fieldProps.t = "object") =>
        \A j \in 1..Len(fieldProps.o) :
            ( /\ fieldProps.o[j].k \in StringGated \cup BoundGated
              /\ fieldProps.o[j].k = "email" => fieldProps.o[j].v = Bool(TRUE) )
            => (Applied(j) <=> Gated(fieldProps.o[j].k))

\* C25: a field with a defined `default` gets that value for an absent input:
\* the schema accepts an input without the field and the rule supplies the
\* default, wherever `default` stands among the modifiers.
C25_DefaultSupplied ==
    (ZodDone /\ zodOut.ok /\ HasDefault) =>
        /\ Accepts(zodOut.val, Obj(<<>>))
        /\ AbsentOutput(FieldRule) = Get(fieldProps, "default")

\* the rule in progress when the loop reaches the entry named k
InProgress(k) ==
    ZodProps(ZodBaseType(fieldProps, fieldOptions), fieldName,
             SubSeq(fieldProps.o, 1, KeyIndex(fieldProps, k) - 1), 1, CustomMessages).val

Hex24 == [i \in 1..24 |-> IF i % 2 = 0 THEN "a" ELSE "0"]
RefProbes == {<<"a">>, <<"a","b","c">>, Hex24, <<"0">> \o Hex24}

\* C26: `ref` fires on the rules the other string-gated modifiers treat as
\* string-typed: when the rule in progress at `ref` is string-typed, the rule
\* after `ref` is the ObjectId rule, and with `ref` as the last modifier the
\* compiled rule accepts a string only if it has exactly 24 hexadecimal characters.
C26_RefOnStringRules ==
    ( /\ ZodDone /\ zodOut.ok /\ fieldProps.t = "object" /\ HasKey(fieldProps, "ref")
      /\ DefType(InProgress("ref")) = "string" )
    => /\ ZodProp(InProgress("ref"), fieldName, "ref", Get(fieldProps, "ref"),
                  CustomMessages).val = ZObjectId
       /\ KeyIndex(fieldProps, "ref") = Len(fieldProps.o) =>
             \A s \in RefProbes :
                 Accepts(FieldRule, Str(s)) => RegexTest(ReHex24, s)

----------------------------------------------------------------------------
(* Compiling a field given in array-shorthand form *)

\* the first elements: a type token alone, with an enum, with other modifiers,
\* no type at all, and a bare constant as in `tags: [String]`
ShorthandElements ==
    { WithType(tok, <<>>) : tok \in TypeTokens }
    \cup { WithType(tok, <<P("enum", EnumAB)>>) : tok \in RichTypes \cup {cNumber} }
    \cup { WithType(tok, <<P("minlength", Num(2))>>) : tok \in RichTypes }
    \cup { WithType(tok, <<P("enum", EnumAB), P("minlength", Num(2))>>) : tok \in RichTypes }
    \cup { Obj(<<>>), Obj(<<P("enum", EnumAB)>>), cString, cNumber }

ShorthandSpecs ==
    { Arr(<<e>>) : e \in ShorthandElements }
    \cup { Arr(<<e, WithType(cNumber, <<>>)>>) : e \in { WithType(tok, <<>>) : tok \in RichTypes } }
    \cup { Arr(<<>>) }

InitShorthand ==
    /\ fieldName = n_tags
    /\ fieldProps \in ShorthandSpecs
    /\ fieldOptions = NoOptions
    /\ phase = [zod |-> Pending, mongoose |-> Pending, norm |-> Done, msg |-> Done]
    /\ zodOut = Throw(Undefined)
    /\ mongoOut = Undefined
    /\ schemaCache = <<>> /\ nextRef = 1 /\ calls = <<>>
    /\ normIn = Undefined /\ normOut = NormThrow(Undefined)
    /\ msgArgs = NoArgs /\ msgOut = Undefined
    /\ callers = <<>>

NextShorthand == CompileValidation \/ CompilePersistence

SpecShorthand == InitShorthand /\ [][NextShorthand]_vars

----------------------------------------------------------------------------
(* Claims about the array-shorthand form and the items of an array *)

FirstElement == IF Len(fieldProps.a) >= 1 THEN fieldProps.a[1] ELSE Undefined

\* the first element's `type`, String when absent
ItemToken == OrElse(Get(FirstElement, "type"), Str(<<"S","t","r","i","n","g">>))

\* what the token resolves to as the type of a field
ItemTokenRule == ZodBaseType(WithType(ItemToken, <<>>), NoOptions)

ElementEnum == Get(FirstElement, "enum")

\* C27: a field in array-shorthand form always compiles, to an array rule whose
\* item has the base type the first element's `type` resolves to as a type
\* token (String when absent); with an enum on the first element an item is
\* accepted iff its lowercase form is in the lowercased enum, and no other
\* modifier of the element adds a check.
C27_Shorthand ==
    (ZodDone /\ fieldProps.t = "array") =>
        /\ zodOut.ok
        /\ FieldRule.type = "array"
        /\ ItemTokenRule.ok => FieldRule.item[1].type = ItemTokenRule.val.type
        /\ ElementEnum.t = "array" =>
              \A s \in EnumProbes :
                  Accepts(FieldRule.item[1], Str(s)) <=>
                      \E i \in 1..Len(ElementEnum.a) :
                          ToLowerCase(ElementEnum.a[i].s) = ToLowerCase(s)
        /\ \A i \in 1..Len(FieldRule.item[1].checks) :
              FieldRule.item[1].checks[i].kind \in {"toLowerCase", "refine_enum"}

----------------------------------------------------------------------------
(* Compiling the persistence config of a field with `items` *)

ItemsFieldTypes ==
    {cArray, Str(<<"A","r","r","a","y">>), Str(<<"a","R","R","a","y">>),
     cString, Str(<<"M","i","x","e","d">>)}

ItemsValues ==
    { Obj(<<P("type", tok)>>) : tok \in TypeTokens }
    \cup { Obj(<<P("type", tok), P("ref", Str(<<"Post">>))>>) : tok \in TypeTokens }

ItemsSpecs == { WithType(tok, <<P("items", it)>>) : tok \in ItemsFieldTypes, it \in ItemsValues }

InitItems ==
    /\ fieldName = n_tags
    /\ fieldProps \in ItemsSpecs
    /\ fieldOptions = NoOptions
    /\ phase = [zod |-> Done, mongoose |-> Pending, norm |-> Done, msg |-> Done]
    /\ zodOut = Throw(Undefined)
    /\ mongoOut = Undefined
    /\ schemaCache = <<>> /\ nextRef = 1 /\ calls = <<>>
    /\ normIn = Undefined /\ normOut = NormThrow(Undefined)
    /\ msgArgs = NoArgs /\ msgOut = Undefined
    /\ callers = <<>>

NextItems == CompilePersistence

SpecItems == InitItems /\ [][NextItems]_vars

ItemsToken == Get(Get(fieldProps, "items"), "type")
ItemsRef   == Get(Get(fieldProps, "items"), "ref")

\* C28: on a field that resolves to Array, `items` makes the config's type the
\* one-element array of the item's type, resolved as a top-level type token is
\* (constants by identity, aliases in any casing, other tokens passed through),
\* and the `ref` of an ObjectId item is carried to the config; on any other
\* field `items` changes nothing.
C28_ItemsType ==
    (MongooseDone /\ fieldProps.t = "object" /\ Get(fieldProps, "items").t = "object") =>
        IF MongooseType(TypeToken) = cArray
        THEN /\ Get(FieldConfig, "type") = Arr(<<MongooseType(ItemsToken)>>)
             /\ (MongooseType(ItemsToken) = cObjectId /\ ItemsRef # Undefined) =>
                   Get(FieldConfig, "ref") = ItemsRef
        ELSE FieldConfig = Obj(<<P("type", MongooseType(TypeToken))>>)

----------------------------------------------------------------------------
(* Claims about the cache key and the fields of the compiled pair *)

\* C29: a cache-enabled call returns what compiling its own (definition,
\* options) gives, and two calls that differ in the definition or the options,
\* be it only in a pattern or a function, never get the same cached pair.
C29_KeyFaithful ==
    \A i \in 1..Len(calls) :
        (EnableCache(calls[i].options) /\ calls[i].out.ok) =>
            /\ Equivalent(calls[i].out.pair, calls[i].def, calls[i].options)
            /\ \A j \in 1..(i - 1) :
                  (calls[j].out.ok /\ ~SameInput(calls[i], calls[j])) =>
                      calls[j].out.pair.ref # calls[i].out.pair.ref

\* definitions of up to three fields, in every order of the names
FieldSpecOf(fName) ==
    CASE fName = n_name -> WithType(Str(<<"S","t","r","i","n","g">>), <<P("required", Bool(TRUE))>>)
      [] fName = n_tags -> Arr(<<WithType(Str(<<"S","t","r","i","n","g">>), <<>>)>>)
      [] fName = n_profile -> WithType(Str(<<"o","b","j","e","c","t">>),
                                       <<P("schema", NestedDefinition)>>)
      [] OTHER -> WithType(Str(<<"f","o","o">>), <<>>)

NameSeqs ==
    UNION { { q \in [1..n -> {n_name, n_tags, n_profile}] :
                \A i, j \in 1..n : i # j => q[i] # q[j] } : n \in 0..2 }
    \cup { <<n_name, n_tags, n_profile>>, <<n_profile, n_tags, n_name>>, <<n_name, n_age>> }

FieldsDefinitions == { Obj([i \in 1..Len(q) |-> P(q[i], FieldSpecOf(q[i]))]) : q \in NameSeqs }

NextFields == \E d \in FieldsDefinitions : CreateSchemasCall(d, NoOptions)

SpecFields == Init /\ [][NextFields]_vars

\* the keys of an object, in order
KeysOf(entries) == [i \in 1..Len(entries) |-> entries[i].k]

\* C30: the validation schema and the persistence field map of a compiled pair
\* hold exactly the field names of the definition, once each and in the
\* definition's order.
C30_SameFieldNames ==
    \A i \in 1..Len(calls) :
        calls[i].out.ok =>
            /\ KeysOf(calls[i].out.pair.zodSchema.shape) = KeysOf(calls[i].def.o)
            /\ KeysOf(Get(calls[i].out.pair.mongooseSchema, "obj").o) = KeysOf(calls[i].def.o)

\* a compiled definition of three fields, one of them in array-shorthand form
C30_Witness ==
    /\ Len(calls) >= 1
    /\ LastCall.out.ok
    /\ KeysOf(LastCall.def.o) = <<n_profile, n_tags, n_name>>
    /\ KeysOf(LastCall.out.pair.zodSchema.shape) = <<n_profile, n_tags, n_name>>
    /\ KeysOf(Get(LastCall.out.pair.mongooseSchema, "obj").o) = <<n_profile, n_tags, n_name>>

====
